---------------------------- MODULE Spec2Model ----------------------------
(***************************************************************************)
(* Model of meshmode's opposite-face connection construction               *)
(* (meshmode/discretization/connection/opposite_face.py).                  *)
(*                                                                         *)
(* Number representation.  Floating-point coordinates are modelled in      *)
(* fixed point: 1.0 is RefHalf units, so the 1D reference element [-1, 1]  *)
(* is -RefHalf..RefHalf, and the source's tolerance `tol` is Tol units.    *)
(* The inputs are drawn so that every division the code performs is exact  *)
(* in this representation.                                                 *)
(*                                                                         *)
(* Array layout.  numpy arrays of shape (axis, nelements, nnodes) are      *)
(* sequences indexed [element][node] of coordinate tuples; numpy's         *)
(* 0-based positions are 1-based here, element and face *numbers* keep     *)
(* their 0-based values.                                                   *)
(***************************************************************************)
EXTENDS Integers, Sequences, FiniteSets, TLC

VARIABLES
    prog,           \* which routine this behaviour runs
    pc,             \* position inside the routine
    fin,            \* arguments of _make_cross_face_batches
    src_unit_nodes, \* src_unit_nodes: matched reference coordinates [e][t]
    tier,           \* which tier produced src_unit_nodes
    niter,          \* niter of the Gauss-Newton loop
    nIterDone,      \* loop bodies (residual evaluation + update) executed
    max_resid,      \* max_resid of the last loop body
    checked_nodes,  \* the iterate whose residual max_resid was computed from
    done_elements,  \* done_elements of the batch partitioner
    batches,        \* the InterpolationBatch list produced so far
    batch_els,      \* close_els (element positions) of each produced batch
    run,            \* 1: first run of the partitioner, 2: the rerun
    prev_batches,   \* the batch list of the first run
    mesh,           \* arguments of the connection builder
    groups,         \* groups: the batch list of each target group
    i_src_grp,      \* i_src_grp of the builder's outer loop
    src_grp_el_lookup, \* lookup table of the current source group
    todo_iters,     \* loop bodies left for the current source group
    conn_out,       \* the connection returned by the builder
    err,            \* the exception that ended the routine, or "none"
    connections,    \* argument of L2ProjectionInverseDiscretizationConnection
    is_surjective,  \* its is_surjective argument
    todo_links,     \* links the loop over reversed(connections) has left
    conns,          \* conns: the inverted links built so far
    inverse,        \* the object the constructor call returned
    call_ary,       \* ary: the data the inverse connection is applied to
    call_result,    \* what the application returned
    calls,          \* the array context of each application so far
    memo_weights,   \* memoization dict of _batch_weights on the connection
    memo_vdm,       \* memoization dict of vandermonde_matrix in each actx
    n_weights,      \* times the body of _batch_weights ran to its return
    n_vdm,          \* times the body of vandermonde_matrix ran [actx][key]
    call_used,      \* weights and matrices the last application worked with
    knl,            \* arguments of one run of conn_projection_knl
    knl_result,     \* result: the output array of the kernel
    knl_inited,     \* instances (iel_init, idof_init) of init that have run
    knl_st,         \* position of each instance (iel, ibasis) of the update
    knl_tmp,        \* the value each instance read from result
    xf_knl,         \* the kernel given to _transform_loopy_inner
    t_unit,         \* t_unit: the kernel as transformed so far
    el_inames,      \* el_inames as collected
    dof_inames,     \* dof_inames as collected
    todo_dof,       \* what the loop over sorted(dof_inames) has left
    todo_el,        \* what the loop over sorted(el_inames) has left
    xf_calls        \* the calls of split_iname and tag_inames made so far

faceVars == <<fin, src_unit_nodes, tier, niter, nIterDone, max_resid,
              checked_nodes, done_elements, batches, batch_els, run,
              prev_batches>>

bldVars == <<mesh, groups, i_src_grp, src_grp_el_lookup, todo_iters, conn_out>>

memoVars == <<calls, memo_weights, memo_vdm, n_weights, n_vdm,
              call_used>>

knlVars == <<knl, knl_result, knl_inited, knl_st, knl_tmp>>

xfVars == <<xf_knl, t_unit, el_inames, dof_inames, todo_dof, todo_el,
            xf_calls>>

projVars == <<connections, is_surjective, todo_links, conns, inverse,
              call_ary, call_result, memoVars, knlVars, xfVars>>

vars == <<prog, pc, faceVars, bldVars, err, projVars>>

---------------------------------------------------------------------------
(* Bounds of the model and constants of the program. *)

MaxEls == 3
MaxH == 2
MaxShift == 2
MaxOff == 2
MaxNodes == 4
RefHalf == 8
Tol == 2
MaxIter == 10

\* the variables of the kernel transform while another routine runs
XfIdle ==
    /\ xf_knl = <<>>
    /\ t_unit = <<>>
    /\ el_inames = <<>>
    /\ dof_inames = <<>>
    /\ todo_dof = <<>>
    /\ todo_el = <<>>
    /\ xf_calls = <<>>

\* the variables of a kernel run while another routine runs
KnlIdle ==
    /\ knl = <<>>
    /\ knl_result = <<>>
    /\ knl_inited = {}
    /\ knl_st = <<>>
    /\ knl_tmp = <<>>

\* the variables of the projection constructor while another routine runs
ProjIdle ==
    /\ connections = <<>>
    /\ is_surjective = FALSE
    /\ todo_links = <<>>
    /\ conns = <<>>
    /\ inverse = <<>>
    /\ call_ary = <<>>
    /\ call_result = <<>>
    /\ calls = <<>>
    /\ memo_weights = <<>>
    /\ memo_vdm = <<>>
    /\ n_weights = 0
    /\ n_vdm = <<>>
    /\ call_used = <<>>
    /\ KnlIdle
    /\ XfIdle

\* an optional value: None, or Some(x)
None == <<>>

Some(x) == <<x>>

---------------------------------------------------------------------------
(* Arithmetic helpers (numpy reductions). *)

Abs(x) == IF x < 0 THEN -x ELSE x

RECURSIVE SeqSum(_)
SeqSum(s) == IF s = <<>> THEN 0 ELSE s[1] + SeqSum(Tail(s))

SetMax(S) == CHOOSE m \in S : \A x \in S : x <= m

SetMin(S) == CHOOSE m \in S : \A x \in S : m <= x

VecSub(p, q) == [a \in 1..Len(p) |-> p[a] - q[a]]

Dot(p, q) == SeqSum([a \in 1..Len(p) |-> p[a] * q[a]])

\* ascending list of the members of a set of integers (np.where on a mask)
RECURSIVE SortedSeq(_)
SortedSeq(S) ==
    IF S = {} THEN <<>> ELSE <<SetMin(S)>> \o SortedSeq(S \ {SetMin(S)})

\* numpy fancy indexing ary[idx] with a list of 1-based positions
Take(ary, idx) == [k \in 1..Len(idx) |-> ary[idx[k]]]

---------------------------------------------------------------------------
(* InterpolationBatch as constructed in opposite_face.py *)

InterpolationBatch(from_grp, from_els, to_els, unit_nodes, face) ==
    [from_group_index |-> from_grp,
     from_element_indices |-> from_els,
     to_element_indices |-> to_els,
     result_unit_nodes |-> unit_nodes,
     to_element_face |-> face]

---------------------------------------------------------------------------
(* _find_src_unit_nodes_by_matching *)

\* la.norm(dist_vec, ord=2) < tol, compared on the squares
IsClose(p, q, tol) == Dot(VecSub(p, q), VecSub(p, q)) < tol * tol

CloseSources(tgt, src, e, t, tol) ==
    {s \in 1..Len(src[e]) : IsClose(tgt[e][t], src[e][s], tol)}

num_close_vertices(tgt, src, e, t, tol) ==
    Cardinality(CloseSources(tgt, src, e, t, tol))

AllOneClose(tgt, src, tol) ==
    \A e \in 1..Len(tgt) : \A t \in 1..Len(tgt[e]) :
        num_close_vertices(tgt, src, e, t, tol) = 1

\* mutant: every target node is given the first source node
source_indices_first(tgt, src, e, t, tol) == 1

\* np.where(is_close)[-1].reshape(nelements, ntgt_unit_nodes), one (e, t)
source_indices(tgt, src, e, t, tol) ==
    CHOOSE s \in CloseSources(tgt, src, e, t, tol) : TRUE

\* the "# check" block: distances recomputed on the matched pairs
MatchCheck(tgt, src, tol) ==
    \A e \in 1..Len(tgt) : \A t \in 1..Len(tgt[e]) :
        IsClose(tgt[e][t], src[e][source_indices(tgt, src, e, t, tol)], tol)

\* mutant: the unit nodes are returned in their own order
find_src_unit_nodes_by_matching_unpermuted(tgt, src, unit_nodes, tol) ==
    IF ~AllOneClose(tgt, src, tol)
    THEN [is_none |-> TRUE, nodes |-> <<>>]
    ELSE [is_none |-> FALSE,
          nodes |-> [e \in 1..Len(tgt) |-> [t \in 1..Len(tgt[e]) |->
                       unit_nodes[t]]]]

\* mutant: the unit nodes are taken from the far end of the list
find_src_unit_nodes_by_matching_reversed(tgt, src, unit_nodes, tol) ==
    IF ~AllOneClose(tgt, src, tol)
    THEN [is_none |-> TRUE, nodes |-> <<>>]
    ELSE [is_none |-> FALSE,
          nodes |-> [e \in 1..Len(tgt) |-> [t \in 1..Len(tgt[e]) |->
                       unit_nodes[Len(unit_nodes) + 1
                                  - source_indices(tgt, src, e, t, tol)]]]]

\* mutant: no match is ever reported
find_src_unit_nodes_by_matching_none(tgt, src, unit_nodes, tol) ==
    [is_none |-> TRUE, nodes |-> <<>>]

\* returns None (is_none) or src_grp.unit_nodes[:, source_indices]
find_src_unit_nodes_by_matching(tgt, src, unit_nodes, tol) ==
    IF ~AllOneClose(tgt, src, tol)
    THEN [is_none |-> TRUE, nodes |-> <<>>]
    ELSE [is_none |-> FALSE,
          nodes |-> [e \in 1..Len(tgt) |-> [t \in 1..Len(tgt[e]) |->
                       unit_nodes[source_indices(tgt, src, e, t, tol)]]]]


---------------------------------------------------------------------------
(* _find_src_unit_nodes_via_gauss_newton, for a source group of dimension  *)
(* 1 with two interpolation nodes (the `dim == 1` branch).                 *)

\* src_mesh_grp.vertex_unit_coordinates() of the 1D reference element
vertex_unit_coordinates == << <<-RefHalf>>, <<RefHalf>> >>

\* np.mean(vertex_unit_coordinates, axis=0)
initial_guess ==
    [r \in 1..Len(vertex_unit_coordinates[1]) |->
        SeqSum([v \in 1..Len(vertex_unit_coordinates) |->
                   vertex_unit_coordinates[v][r]])
            \div Len(vertex_unit_coordinates)]

\* src_unit_nodes[:] = initial_guess.reshape(-1, 1, 1)
InitialNodes(tgt) ==
    [e \in 1..Len(tgt) |-> [t \in 1..Len(tgt[e]) |-> initial_guess]]

\* common denominator of the interpolation coefficients
CoeffDen(unit_nodes) == unit_nodes[2][1] - unit_nodes[1][1]

\* intp_coeffs = inv_t_vdm . basis_at_unit_nodes: the Lagrange coefficients
\* of the two source nodes at reference point u, as numerators over CoeffDen
intp_coeffs(unit_nodes, u) ==
    << unit_nodes[2][1] - u[1], u[1] - unit_nodes[1][1] >>

\* one_deviation = |sum(intp_coeffs) - 1|, asserted < tol
one_deviation_ok(unit_nodes, u, tol) ==
    Abs(SeqSum(intp_coeffs(unit_nodes, u)) - CoeffDen(unit_nodes)) * RefHalf
        < tol * Abs(CoeffDen(unit_nodes))

\* mapped = einsum("fet,aef->aet", intp_coeffs, src_bdry_nodes), one (e, t)
apply_map(src, unit_nodes, e, u) ==
    [a \in 1..Len(src[e][1]) |->
        SeqSum([f \in 1..Len(src[e]) |->
                   intp_coeffs(unit_nodes, u)[f] * src[e][f][a]])
            \div CoeffDen(unit_nodes)]

\* einsum("rfet,aef->raet", dintp_coeffs, src_bdry_nodes), r = 0, one (e, t)
get_map_jacobian(src, unit_nodes, e) ==
    [a \in 1..Len(src[e][1]) |->
        (src[e][2][a] - src[e][1][a]) \div CoeffDen(unit_nodes)]

\* resid = apply_map(src_unit_nodes) - tgt_bdry_nodes, one (e, t)
Resid(tgt, src, unit_nodes, nodes, e, t) ==
    VecSub(apply_map(src, unit_nodes, e, nodes[e][t]), tgt[e][t])

\* dim == 1: df_inv_resid = atb / ata[0, 0]
df_inv_resid(tgt, src, unit_nodes, nodes, e, t) ==
    LET df == get_map_jacobian(src, unit_nodes, e)
        ata == Dot(df, df)
        atb == Dot(df, Resid(tgt, src, unit_nodes, nodes, e, t))
    IN  atb \div ata

\* mutant: the iterate is left as it is
NewtonUpdate_none(tgt, src, unit_nodes, nodes) == nodes

\* src_unit_nodes = src_unit_nodes - df_inv_resid
NewtonUpdate(tgt, src, unit_nodes, nodes) ==
    [e \in 1..Len(tgt) |-> [t \in 1..Len(tgt[e]) |->
        << nodes[e][t][1] - df_inv_resid(tgt, src, unit_nodes, nodes, e, t) >>]]

\* max_resid = np.max(np.abs(resid))
MaxResid(tgt, src, unit_nodes, nodes) ==
    SetMax({Abs(Resid(tgt, src, unit_nodes, nodes, e, t)[a]) :
               e \in 1..Len(tgt), t \in 1..Len(tgt[1]), a \in 1..Len(tgt[1][1])})

\* mutant: the solve gives up one iteration earlier
NewtonGivesUp_early(n) == n >= MaxIter

\* if niter > 10: raise RuntimeError
NewtonGivesUp(n) == n > MaxIter

---------------------------------------------------------------------------
(* _find_src_unit_nodes_batches: one round of the `while True` loop        *)

\* todo_elements, = np.where(~done_elements)
todo_elements(done) == SortedSeq({e \in 1..Len(done) : ~done[e]})

\* mutant: the last undone element is the template
TemplateElement_last(todo) == todo[Len(todo)]

\* template_unit_nodes = src_unit_nodes[:, todo_elements[0], :]
TemplateElement(todo) == todo[1]

\* unit_node_dist of element e: max over axes and nodes of |difference|
unit_node_dist(nodes, e, template) ==
    SetMax({Abs(nodes[e][t][r] - template[t][r]) :
               t \in 1..Len(template), r \in 1..Len(template[1])} \cup {0})

\* mutant: the tolerance test is inclusive
WithinTol_inclusive(d, tol) == d <= tol

\* unit_node_dist < tol
WithinTol(d, tol) == d < tol

\* mutant: only the template itself is taken into the batch
close_els_template_only(nodes, done, tol) ==
    << TemplateElement(todo_elements(done)) >>

\* close_els = todo_elements[unit_node_dist < tol]
close_els(nodes, done, tol) ==
    LET todo == todo_elements(done)
        template == nodes[TemplateElement(todo)]
    IN  SortedSeq({e \in {todo[k] : k \in 1..Len(todo)} :
                      WithinTol(unit_node_dist(nodes, e, template), tol)})

\* mutant: the target indices of all undone elements are taken
RoundBatch_to_all_todo(nodes, done, tol, i_src, tgt_idx, src_idx) ==
    InterpolationBatch(
        i_src,
        Take(src_idx, close_els(nodes, done, tol)),
        Take(tgt_idx, todo_elements(done)),
        nodes[TemplateElement(todo_elements(done))],
        None)

\* the InterpolationBatch yielded by the round
RoundBatch(nodes, done, tol, i_src, tgt_idx, src_idx) ==
    InterpolationBatch(
        i_src,
        Take(src_idx, close_els(nodes, done, tol)),
        Take(tgt_idx, close_els(nodes, done, tol)),
        nodes[TemplateElement(todo_elements(done))],
        None)

\* mutant: only the first element of the batch is marked
MarkDone_first_only(done, els) ==
    [e \in 1..Len(done) |-> done[e] \/ els[1] = e]

\* done_elements[close_els] = True
MarkDone(done, els) ==
    [e \in 1..Len(done) |-> done[e] \/ (\E k \in 1..Len(els) : els[k] = e)]

---------------------------------------------------------------------------
(* AffineMap (meshmode.mesh.tools), restricted to translations; the        *)
(* default AffineMap() is the zero translation.                            *)

AffineMap(offset, nodes) ==
    [e \in 1..Len(nodes) |-> [t \in 1..Len(nodes[e]) |->
        [a \in 1..Len(nodes[e][t]) |-> nodes[e][t][a] + offset[a]]]]

---------------------------------------------------------------------------
(* Inputs of _make_cross_face_batches.                                     *)
(* Source group: order 1, unit nodes -1 and +1.  Source element e is the   *)
(* segment of half-length h centred at (100 e, 0); target node t of        *)
(* element e lies at reference position pat[e][t] + sh[e] of that segment, *)
(* and the target affine map translates by `off` across the segment.       *)

Patterns(nt) ==
    CASE nt = 1 -> { <<0>>, <<-RefHalf>> }
      [] nt = 2 -> { <<-RefHalf, RefHalf>>, <<RefHalf, -RefHalf>>,
                     <<RefHalf, RefHalf>> }
      [] nt = 3 -> { <<-RefHalf, 0, RefHalf>>, <<RefHalf, 0, -RefHalf>> }

SegmentUnitNodes == << <<-RefHalf>>, <<RefHalf>> >>

SegmentNodes(n, h) ==
    [e \in 1..n |-> << <<100 * e - h * RefHalf, 0>>,
                       <<100 * e + h * RefHalf, 0>> >>]

TargetNodes(n, h, pat, sh) ==
    [e \in 1..n |-> [t \in 1..Len(pat[e]) |->
        <<100 * e + h * (pat[e][t] + sh[e]), 0>>]]

TgtIndices(n) == [k \in 1..n |-> 2 * (k - 1)]

SrcIndices(n) == [k \in 1..n |-> 2 * (n - k) + 1]

FaceInput(n, h, off, pat, sh) ==
    [dim |-> 1,
     tgt_nodes |-> TargetNodes(n, h, pat, sh),
     src_nodes |-> SegmentNodes(n, h),
     tgt_aff |-> <<0, off>>,
     src_aff |-> <<0, 0>>,
     unit_nodes |-> SegmentUnitNodes,
     i_src_grp |-> 0,
     tgt_idx |-> TgtIndices(n),
     src_idx |-> SrcIndices(n)]

\* a zero-dimensional boundary (the faces of a 1D mesh): one node per
\* element, no reference coordinates
PointInput(n) ==
    [dim |-> 0,
     tgt_nodes |-> [e \in 1..n |-> << <<100 * e>> >>],
     src_nodes |-> [e \in 1..n |-> << <<100 * e>> >>],
     tgt_aff |-> <<0>>,
     src_aff |-> <<0>>,
     unit_nodes |-> << <<>> >>,
     i_src_grp |-> 0,
     tgt_idx |-> TgtIndices(n),
     src_idx |-> SrcIndices(n)]

\* nelements and ntgt_unit_nodes of the calls that are run
FaceShapes ==
    { s \in (1..MaxEls) \X (1..3) : s[1] * s[2] <= MaxNodes }

\* tgt_bdry_nodes, src_bdry_nodes (lines 70-78)
tgt_bdry_nodes == AffineMap(fin.tgt_aff, fin.tgt_nodes)

src_bdry_nodes == AffineMap(fin.src_aff, fin.src_nodes)

NoElementsDone == [e \in 1..Len(fin.tgt_idx) |-> FALSE]

InitFace ==
    /\ prog = "face"
    /\ pc = "start"
    /\ \/ \E n \in 1..MaxEls : fin = PointInput(n)
       \/ \E s \in FaceShapes, h \in 1..MaxH, off \in 0..MaxOff :
            \E pat \in [1..s[1] -> Patterns(s[2])],
               sh \in [1..s[1] -> 0..MaxShift] :
                fin = FaceInput(s[1], h, off, pat, sh)
    /\ src_unit_nodes = <<>>
    /\ tier = "none"
    /\ niter = 0
    /\ nIterDone = 0
    /\ max_resid = -1
    /\ checked_nodes = <<>>
    /\ done_elements = <<>>
    /\ batches = <<>>
    /\ batch_els = <<>>
    /\ run = 1
    /\ prev_batches = <<>>
    /\ ProjIdle
    /\ mesh = <<>>
    /\ groups = <<>>
    /\ i_src_grp = 0
    /\ src_grp_el_lookup = <<>>
    /\ todo_iters = <<>>
    /\ conn_out = <<>>
    /\ err = "none"

---------------------------------------------------------------------------
(* _make_cross_face_batches, step by step *)

\* if tgt_bdry_discr.dim == 0: return [InterpolationBatch(...)]
DimZeroShortcut ==
    /\ prog = "face" /\ pc = "start"
    /\ fin.dim = 0
    /\ batches' = << InterpolationBatch(fin.i_src_grp, fin.src_idx,
                                        fin.tgt_idx, fin.unit_nodes, None) >>
    /\ tier' = "shortcut"
    /\ pc' = "done"
    /\ UNCHANGED <<projVars, bldVars, prog, fin, src_unit_nodes, niter, nIterDone, max_resid,
                   checked_nodes, done_elements, batch_els, run,
                   prev_batches, err>>

\* _find_src_unit_nodes_by_matching returned an array
MatchExact ==
    /\ prog = "face" /\ pc = "start"
    /\ fin.dim # 0
    /\ ~find_src_unit_nodes_by_matching(
           tgt_bdry_nodes, src_bdry_nodes, fin.unit_nodes, Tol).is_none
    /\ IF MatchCheck(tgt_bdry_nodes, src_bdry_nodes, Tol)
       THEN /\ src_unit_nodes' = find_src_unit_nodes_by_matching(
                   tgt_bdry_nodes, src_bdry_nodes, fin.unit_nodes, Tol).nodes
            /\ tier' = "exact"
            /\ pc' = "batching"
            /\ done_elements' = NoElementsDone
            /\ err' = err
       ELSE /\ pc' = "failed"
            /\ err' = "AssertionError"
            /\ UNCHANGED <<src_unit_nodes, tier, done_elements>>
    /\ UNCHANGED <<projVars, bldVars, prog, fin, niter, nIterDone, max_resid, checked_nodes,
                   batches, batch_els, run, prev_batches>>

\* _find_src_unit_nodes_by_matching returned None: enter the Newton tier
MatchFails ==
    /\ prog = "face" /\ pc = "start"
    /\ fin.dim # 0
    /\ find_src_unit_nodes_by_matching(
           tgt_bdry_nodes, src_bdry_nodes, fin.unit_nodes, Tol).is_none
    /\ src_unit_nodes' = InitialNodes(tgt_bdry_nodes)
    /\ niter' = 0
    /\ tier' = "newton"
    /\ pc' = "newton"
    /\ UNCHANGED <<projVars, bldVars, prog, fin, nIterDone, max_resid, checked_nodes,
                   done_elements, batches, batch_els, run, prev_batches, err>>

\* one body of the `while True` loop of the Gauss-Newton solve
NewtonIteration ==
    /\ prog = "face" /\ pc = "newton"
    /\ IF \A e \in 1..Len(src_unit_nodes) : \A t \in 1..Len(src_unit_nodes[e]) :
              one_deviation_ok(fin.unit_nodes, src_unit_nodes[e][t], Tol)
       THEN /\ src_unit_nodes' = NewtonUpdate(tgt_bdry_nodes, src_bdry_nodes,
                                              fin.unit_nodes, src_unit_nodes)
            /\ max_resid' = MaxResid(tgt_bdry_nodes, src_bdry_nodes,
                                     fin.unit_nodes, src_unit_nodes)
            /\ checked_nodes' = src_unit_nodes
            /\ nIterDone' = nIterDone + 1
            /\ IF max_resid' < Tol
               THEN /\ pc' = "batching"
                    /\ done_elements' = NoElementsDone
                    /\ UNCHANGED <<niter, err>>
               ELSE /\ niter' = niter + 1
                    /\ done_elements' = done_elements
                    /\ IF NewtonGivesUp(niter')
                       THEN pc' = "failed" /\ err' = "RuntimeError"
                       ELSE pc' = "newton" /\ err' = err
       ELSE /\ pc' = "failed"
            /\ err' = "AssertionError"
            /\ UNCHANGED <<src_unit_nodes, max_resid, checked_nodes,
                           nIterDone, niter, done_elements>>
    /\ UNCHANGED <<projVars, bldVars, prog, fin, tier, batches, batch_els, run, prev_batches>>

\* one round of _find_src_unit_nodes_batches: a batch is yielded
PartitionRound ==
    /\ prog = "face" /\ pc = "batching"
    /\ todo_elements(done_elements) # <<>>
    /\ batches' = Append(batches,
           RoundBatch(src_unit_nodes, done_elements, Tol,
                      fin.i_src_grp, fin.tgt_idx, fin.src_idx))
    /\ batch_els' = Append(batch_els,
           close_els(src_unit_nodes, done_elements, Tol))
    /\ done_elements' = MarkDone(done_elements,
           close_els(src_unit_nodes, done_elements, Tol))
    /\ UNCHANGED <<projVars, bldVars, prog, pc, fin, src_unit_nodes, tier, niter, nIterDone,
                   max_resid, checked_nodes, run, prev_batches, err>>

\* if not len(todo_elements): return
PartitionReturn ==
    /\ prog = "face" /\ pc = "batching"
    /\ todo_elements(done_elements) = <<>>
    /\ pc' = "done"
    /\ UNCHANGED <<projVars, bldVars, prog, fin, src_unit_nodes, tier, niter, nIterDone,
                   max_resid, checked_nodes, done_elements, batches,
                   batch_els, run, prev_batches, err>>

\* the partitioner is run once more on the same src_unit_nodes
Rerun ==
    /\ prog = "face" /\ pc = "done"
    /\ run = 1
    /\ tier \in {"exact", "newton"}
    /\ prev_batches' = batches
    /\ batches' = <<>>
    /\ batch_els' = <<>>
    /\ done_elements' = NoElementsDone
    /\ run' = 2
    /\ pc' = "batching"
    /\ UNCHANGED <<projVars, bldVars, prog, fin, src_unit_nodes, tier, niter, nIterDone,
                   max_resid, checked_nodes, err>>

NextFace ==
    \/ DimZeroShortcut
    \/ MatchExact
    \/ MatchFails
    \/ NewtonIteration
    \/ PartitionRound
    \/ PartitionReturn
    \/ Rerun

SpecFace == InitFace /\ [][NextFace]_vars

---------------------------------------------------------------------------
(* _make_cross_face_batches as a function of its arguments: what the steps *)
(* above compute, for the callers that build whole connections.            *)

\* the loop from iterate `nodes` with niter = n on; the iterate is bound
\* by a quantifier so that it is computed once per iteration
RECURSIVE gauss_newton(_, _, _, _, _)
gauss_newton(tgt, src, unit_nodes, nodes, n) ==
    CHOOSE result \in
        { IF MaxResid(tgt, src, unit_nodes, u) < Tol
          THEN [err |-> "none",
                nodes |-> NewtonUpdate(tgt, src, unit_nodes, u)]
          ELSE IF NewtonGivesUp(n + 1)
               THEN [err |-> "RuntimeError", nodes |-> <<>>]
               ELSE gauss_newton(tgt, src, unit_nodes,
                                 NewtonUpdate(tgt, src, unit_nodes, u), n + 1)
          : u \in {nodes} } : TRUE

RECURSIVE find_src_unit_nodes_batches(_, _, _, _, _, _)
find_src_unit_nodes_batches(nodes, done, tol, i_src, tgt_idx, src_idx) ==
    IF todo_elements(done) = <<>>
    THEN <<>>
    ELSE << RoundBatch(nodes, done, tol, i_src, tgt_idx, src_idx) >>
         \o find_src_unit_nodes_batches(
                nodes, MarkDone(done, close_els(nodes, done, tol)),
                tol, i_src, tgt_idx, src_idx)

make_cross_face_batches(f) ==
    IF f.dim = 0
    THEN [err |-> "none",
          batches |-> << InterpolationBatch(f.i_src_grp, f.src_idx, f.tgt_idx,
                                            f.unit_nodes, None) >>]
    ELSE LET tgt == AffineMap(f.tgt_aff, f.tgt_nodes)
             src == AffineMap(f.src_aff, f.src_nodes)
             m == find_src_unit_nodes_by_matching(tgt, src, f.unit_nodes, Tol)
             u == IF ~m.is_none
                  THEN [err |-> IF MatchCheck(tgt, src, Tol)
                                THEN "none" ELSE "AssertionError",
                        nodes |-> m.nodes]
                  ELSE gauss_newton(tgt, src, f.unit_nodes,
                                    InitialNodes(tgt), 0)
         IN  IF u.err # "none"
             THEN [err |-> u.err, batches |-> <<>>]
             ELSE [err |-> "none",
                   batches |-> find_src_unit_nodes_batches(
                       u.nodes, [e \in 1..Len(f.tgt_idx) |-> FALSE], Tol,
                       f.i_src_grp, f.tgt_idx, f.src_idx)]

---------------------------------------------------------------------------
(* DirectDiscretizationConnection.is_permutation(), for the batches of one *)
(* _make_cross_face_batches call: every non-empty batch has as many        *)
(* target nodes as the source group has nodes, and every target node sits  *)
(* on a source unit node.                                                  *)

is_permutation(bs, unit_nodes, tol) ==
    \A k \in 1..Len(bs) :
        Len(bs[k].from_element_indices) > 0 =>
            /\ Len(bs[k].result_unit_nodes) = Len(unit_nodes)
            /\ \A t \in 1..Len(bs[k].result_unit_nodes) :
                 \E s \in 1..Len(unit_nodes) :
                    \A r \in 1..Len(unit_nodes[s]) :
                        Abs(bs[k].result_unit_nodes[t][r] - unit_nodes[s][r]) < tol

---------------------------------------------------------------------------
(* Properties of _make_cross_face_batches *)

Bijections(n) ==
    {p \in [1..n -> 1..n] : \A i, j \in 1..n : p[i] = p[j] => i = j}

\* both sides carry the same node layout: per element the target nodes are
\* the source nodes in some order
Conforming ==
    /\ fin.dim = 1
    /\ \A e \in 1..Len(tgt_bdry_nodes) :
        /\ Len(tgt_bdry_nodes[e]) = Len(src_bdry_nodes[e])
        /\ \E p \in Bijections(Len(src_bdry_nodes[e])) :
             \A t \in 1..Len(tgt_bdry_nodes[e]) :
                 tgt_bdry_nodes[e][t] = src_bdry_nodes[e][p[t]]

\* the target carries more nodes per element than the source
HigherOrderTarget ==
    /\ fin.dim = 1
    /\ Len(tgt_bdry_nodes[1]) > Len(src_bdry_nodes[1])

\* batch k reindexes the source unit nodes, and the source node it names
\* for target node t of each of its elements is where that target node is
PureReindexing(k) ==
    \A t \in 1..Len(batches[k].result_unit_nodes) :
        \A j \in 1..Len(batch_els[k]) :
            \E s \in 1..Len(fin.unit_nodes) :
                /\ batches[k].result_unit_nodes[t] = fin.unit_nodes[s]
                /\ src_bdry_nodes[batch_els[k][j]][s]
                       = tgt_bdry_nodes[batch_els[k][j]][t]

\* C4: with the same node layout on both sides the exact tier succeeds and
\* every batch is a pure reindexing of the source group's unit nodes, so
\* is_permutation() holds; with a higher-order target it does not hold.
C4_PermutationCorrectness ==
    /\ Conforming =>
        /\ pc \notin {"newton", "failed"}
        /\ pc \in {"batching", "done"} => tier = "exact"
        /\ \A k \in 1..Len(batches) : PureReindexing(k)
        /\ pc = "done" => is_permutation(batches, fin.unit_nodes, Tol)
    /\ HigherOrderTarget /\ pc = "done" =>
        ~is_permutation(batches, fin.unit_nodes, Tol)

\* a conforming call has finished with two batches, one of them reversing
\* the node order
C4_Witness ==
    /\ Conforming /\ pc = "done" /\ Len(batches) = 2
    /\ \E k \in 1..Len(batches) :
         batches[k].result_unit_nodes # fin.unit_nodes

\* number of target unit nodes the batches of this call carry
NumTargetNodes ==
    IF fin.dim = 0 THEN Len(fin.unit_nodes) ELSE Len(fin.tgt_nodes[1])

\* C5 as stated: len(from_element_indices) == len(to_element_indices)
\* == result_unit_nodes.shape[1] for every batch produced.
C5_AsStated ==
    \A k \in 1..Len(batches) :
        /\ Len(batches[k].from_element_indices)
               = Len(batches[k].to_element_indices)
        /\ Len(batches[k].to_element_indices)
               = Len(batches[k].result_unit_nodes)

\* C5, amended: the two element index lists of every batch have the same
\* length, and result_unit_nodes.shape[1] is the number of target unit
\* nodes per element, whatever the number of paired elements.
C5_BatchShapes ==
    \A k \in 1..Len(batches) :
        /\ Len(batches[k].from_element_indices)
               = Len(batches[k].to_element_indices)
        /\ Len(batches[k].result_unit_nodes) = NumTargetNodes
        /\ tier # "shortcut" => Len(batches[k].from_element_indices) >= 1

\* a batch pairs two elements and carries one target node
C5_Witness ==
    /\ pc = "done"
    /\ \E k \in 1..Len(batches) :
        /\ Len(batches[k].from_element_indices) >= 2
        /\ Len(batches[k].result_unit_nodes) = 1

\* max-norm distance of the matched reference coordinates of two elements
ElementDist(e1, e2) ==
    unit_node_dist(src_unit_nodes, e1, src_unit_nodes[e2])

InBatch(k) == {batch_els[k][j] : j \in 1..Len(batch_els[k])}

FromPartitioner == tier \in {"exact", "newton"}

\* C6 as stated: any two elements of one batch have matched reference
\* coordinates less than tol apart.
C6_AsStated ==
    FromPartitioner =>
        \A k \in 1..Len(batches) : \A e1, e2 \in InBatch(k) :
            ElementDist(e1, e2) < Tol

\* C6, amended: every element of a batch is less than tol (max-norm) from
\* the batch's template, whose coordinates are the batch's
\* result_unit_nodes; two elements of one batch are less than 2 tol apart.
C6_WithinTolOfTemplate ==
    FromPartitioner =>
        \A k \in 1..Len(batches) :
            /\ \A e \in InBatch(k) :
                 unit_node_dist(src_unit_nodes, e,
                                batches[k].result_unit_nodes) < Tol
            /\ \A e1, e2 \in InBatch(k) : ElementDist(e1, e2) < 2 * Tol

\* a batch holds an element whose coordinates differ from the template's
C6_Witness ==
    /\ FromPartitioner /\ pc = "done"
    /\ \E k \in 1..Len(batches) : \E e \in InBatch(k) :
         src_unit_nodes[e] # batches[k].result_unit_nodes

\* C7 as stated: two elements less than tol apart are never in two
\* different batches.
C7_AsStated ==
    FromPartitioner /\ pc = "done" =>
        \A j, k \in 1..Len(batches) :
            j # k => \A e1 \in InBatch(j), e2 \in InBatch(k) :
                        ElementDist(e1, e2) >= Tol

\* C7, amended: an element is never split from the template of an earlier
\* batch it is less than tol away from: every element of a later batch is
\* at least tol from the template of every earlier batch.
C7_NotSplitFromTemplate ==
    FromPartitioner =>
        \A j, k \in 1..Len(batches) :
            j < k => \A e \in InBatch(k) :
                        unit_node_dist(src_unit_nodes, e,
                                       batches[j].result_unit_nodes) >= Tol

\* the partitioner has emitted two batches, the first with two elements
C7_Witness ==
    /\ FromPartitioner /\ pc = "done"
    /\ Len(batches) >= 2
    /\ Len(batch_els[1]) >= 2

\* elements assigned before batch k was emitted
AssignedBefore(k) == UNION {InBatch(j) : j \in 1..(k - 1)}

\* C8: the partitioner is deterministic: a rerun on the same coordinates
\* yields the same batch sequence, each batch taking as template the
\* lowest-indexed element not yet assigned and listing its elements in
\* ascending order.
C8_Deterministic ==
    FromPartitioner =>
        /\ run = 2 /\ pc = "done" => batches = prev_batches
        /\ run = 2 => \A k \in 1..Len(batches) : batches[k] = prev_batches[k]
        /\ \A k \in 1..Len(batches) :
            /\ batches[k].result_unit_nodes =
                 src_unit_nodes[SetMin((1..Len(src_unit_nodes))
                                           \ AssignedBefore(k))]
            /\ \A i, j \in 1..Len(batch_els[k]) :
                 i < j => batch_els[k][i] < batch_els[k][j]
            /\ batches[k].from_element_indices = Take(fin.src_idx, batch_els[k])
            /\ batches[k].to_element_indices = Take(fin.tgt_idx, batch_els[k])

\* the rerun has finished with at least two batches
C8_Witness ==
    /\ FromPartitioner /\ run = 2 /\ pc = "done"
    /\ Len(batches) >= 2

\* C9 as stated (distance closure): for every batch and every element
\* paired in it, the source interpolant at the batch's result_unit_nodes
\* is within tol of the element's (affine-mapped) target nodes.
C9_DistanceClosure ==
    FromPartitioner =>
        \A k \in 1..Len(batches) : \A e \in InBatch(k) :
            \A t \in 1..Len(batches[k].result_unit_nodes) :
                \A a \in 1..Len(tgt_bdry_nodes[e][t]) :
                    Abs(apply_map(src_bdry_nodes, fin.unit_nodes, e,
                                  batches[k].result_unit_nodes[t])[a]
                        - tgt_bdry_nodes[e][t][a]) < Tol

\* C10 as stated: the Newton solve never performs more than 10 iterations.
C10_AsStated == nIterDone <= MaxIter

\* C10, amended: the Newton solve never performs more than 11 iterations;
\* it raises RuntimeError exactly when the residual of the 11th iteration
\* is still not below tol, carrying that last computed residual, and it is
\* not retried.
C10_IterationCap ==
    /\ nIterDone <= MaxIter + 1
    /\ pc = "newton" => nIterDone = niter /\ niter <= MaxIter
    /\ err = "RuntimeError" =>
        /\ pc = "failed"
        /\ nIterDone = MaxIter + 1
        /\ max_resid >= Tol
        /\ max_resid = MaxResid(tgt_bdry_nodes, src_bdry_nodes,
                                fin.unit_nodes, checked_nodes)
        /\ batches = <<>>
    /\ pc = "failed" => ~ENABLED NextFace

\* the solve has given up
C10_Witness == err = "RuntimeError" /\ nIterDone = MaxIter + 1

---------------------------------------------------------------------------
(* Inputs of make_opposite_face_connection: a volume mesh whose elements   *)
(* have two faces each, given by the number of elements of each group and  *)
(* a pairing of faces (the interior faces; unpaired faces lie on the       *)
(* domain boundary), and its restriction to all faces or to the interior   *)
(* faces.  Face (g, e, f) has the number 2 (base_element_nrs[g] + e) + f.  *)

MaxVolEls == 3

\* numpy indexing ary[i] with a 0-based, possibly negative index
NumpyIndex(ary, i) == IF i < 0 THEN ary[Len(ary) + i + 1] ELSE ary[i + 1]

\* mesh.base_element_nrs[g]
base_element_nrs(nel, g) == SeqSum(SubSeq(nel, 1, g))

FaceId(nel, g, e, f) == 2 * (base_element_nrs(nel, g) + e) + f

FaceGroup(nel, id) ==
    CHOOSE g \in 0..(Len(nel) - 1) :
        /\ base_element_nrs(nel, g) <= id \div 2
        /\ id \div 2 < base_element_nrs(nel, g) + nel[g + 1]

FaceElement(nel, id) == id \div 2 - base_element_nrs(nel, FaceGroup(nel, id))

FaceNumber(id) == id % 2

GroupFaces(nel, g) ==
    {FaceId(nel, g, e, f) : e \in 0..(nel[g + 1] - 1), f \in 0..1}

\* all sets of disjoint pairs of members of S
RECURSIVE Matchings(_)
Matchings(S) ==
    IF S = {} THEN {{}}
    ELSE LET a == SetMin(S)
         IN  Matchings(S \ {a})
             \cup UNION { { M \cup {{a, b}} : M \in Matchings(S \ {a, b}) } :
                          b \in S \ {a} }

\* the face paired with face id, -1 if it is a boundary face
Partner(M, id) ==
    IF \E p \in M : id \in p
    THEN CHOOSE j \in (CHOOSE p \in M : id \in p) : j # id
    ELSE -1

\* InteriorAdjacencyGroup of group g towards group s
InteriorAdjacencyGroup(nel, M, g, s) ==
    LET ids == SortedSeq({id \in GroupFaces(nel, g) :
                   /\ Partner(M, id) # -1
                   /\ FaceGroup(nel, Partner(M, id)) = s})
    IN  [kind |-> "interior",
         igroup |-> g,
         ineighbor_group |-> s,
         elements |-> [k \in 1..Len(ids) |-> FaceElement(nel, ids[k])],
         element_faces |-> [k \in 1..Len(ids) |-> FaceNumber(ids[k])],
         neighbors |-> [k \in 1..Len(ids) |->
                           FaceElement(nel, Partner(M, ids[k]))],
         neighbor_faces |-> [k \in 1..Len(ids) |->
                           FaceNumber(Partner(M, ids[k]))],
         aff_map |-> None]

BoundaryAdjacencyGroup(nel, M, g) ==
    LET ids == SortedSeq({id \in GroupFaces(nel, g) : Partner(M, id) = -1})
    IN  [kind |-> "boundary",
         igroup |-> g,
         elements |-> [k \in 1..Len(ids) |-> FaceElement(nel, ids[k])],
         element_faces |-> [k \in 1..Len(ids) |-> FaceNumber(ids[k])]]

HasElements(adj) == adj.elements # <<>>

\* mesh.facial_adjacency_groups[g]
facial_adjacency_groups(nel, M, g) ==
    SelectSeq([s \in 1..Len(nel) |-> InteriorAdjacencyGroup(nel, M, g, s - 1)],
              HasElements)
    \o SelectSeq(<< BoundaryAdjacencyGroup(nel, M, g) >>, HasElements)

\* volume elements of group g whose face f the restriction covers
RestrictedElements(nel, M, kind, g, f) ==
    SortedSeq({e \in 0..(nel[g + 1] - 1) :
                  \/ kind = "all"
                  \/ kind = "interior" /\ Partner(M, FaceId(nel, g, e, f)) # -1
                  \/ kind = "boundary" /\ Partner(M, FaceId(nel, g, e, f)) = -1})

\* the batches of group g of the restriction connection: one per face,
\* boundary elements numbered batch after batch
RestrictionBatches(nel, M, kind, g) ==
    [j \in 1..2 |->
        LET els == RestrictedElements(nel, M, kind, g, j - 1)
            start == IF j = 1 THEN 0
                     ELSE Len(RestrictedElements(nel, M, kind, g, 0))
        IN  InterpolationBatch(g, els,
                               [k \in 1..Len(els) |-> start + k - 1],
                               <<>>, Some(j - 1))]

\* the volume face behind each boundary element of group g, in the
\* numbering of the boundary discretization
BdryFaceIds(nel, M, kind, g) ==
    [k \in 1..Len(RestrictedElements(nel, M, kind, g, 0)) |->
        FaceId(nel, g, RestrictedElements(nel, M, kind, g, 0)[k], 0)]
    \o
    [k \in 1..Len(RestrictedElements(nel, M, kind, g, 1)) |->
        FaceId(nel, g, RestrictedElements(nel, M, kind, g, 1)[k], 1)]

\* nodes of the boundary element on volume face id.  The two sides of a
\* pair of faces share their node positions; the side with the larger face
\* number lists them in reverse when the two face numbers add up to an odd
\* number.  For dim 0 a boundary element is one point.
FaceNodes(dim, M, id) ==
    LET other == Partner(M, id)
        x == 100 * (IF other = -1 \/ id < other THEN id + 1 ELSE other + 1)
        reversed == other # -1 /\ other < id /\ (id + other) % 2 = 1
    IN  IF dim = 0 THEN << <<x>> >>
        ELSE IF reversed
             THEN << <<x + RefHalf, 0>>, <<x - RefHalf, 0>> >>
             ELSE << <<x - RefHalf, 0>>, <<x + RefHalf, 0>> >>

\* everything make_opposite_face_connection reads from its argument
OppInput(nel, M, kind, dim) ==
    [ngrps |-> Len(nel),
     nelements |-> nel,
     nfaces |-> [g \in 1..Len(nel) |-> 2],
     facial_adjacency_groups |->
        [g \in 1..Len(nel) |-> facial_adjacency_groups(nel, M, g - 1)],
     conn_groups |->
        [g \in 1..Len(nel) |-> RestrictionBatches(nel, M, kind, g - 1)],
     n_vol_groups |-> Len(nel),
     bdry_dim |-> dim,
     bdry_nelements |->
        [g \in 1..Len(nel) |-> Len(BdryFaceIds(nel, M, kind, g - 1))],
     bdry_nodes |->
        [g \in 1..Len(nel) |->
            [b \in 1..Len(BdryFaceIds(nel, M, kind, g - 1)) |->
                FaceNodes(dim, M, BdryFaceIds(nel, M, kind, g - 1)[b])]],
     unit_nodes |-> IF dim = 0 THEN << <<>> >> ELSE SegmentUnitNodes]

\* element counts of the groups: one group, or two
GroupSizes ==
    { <<n>> : n \in 1..MaxVolEls }
    \cup { <<a, b>> : a \in 1..MaxVolEls, b \in 1..MaxVolEls }

\* the ways the argument can fail to be a volume-to-boundary restriction
Defects ==
    {"none", "from_group_index", "to_element_face", "vol_groups",
     "bdry_groups", "missing_face_batch"}

\* the argument with one defect: the first batch of the first group names
\* another group or has no face, or the volume or the boundary
\* discretization has one group more than the connection
WithDefect(m, defect) ==
    CASE defect = "none" -> m
      [] defect = "from_group_index" ->
            [m EXCEPT !.conn_groups[1][1].from_group_index = 1]
      [] defect = "to_element_face" ->
            [m EXCEPT !.conn_groups[1][1].to_element_face = None]
      [] defect = "vol_groups" ->
            [m EXCEPT !.n_vol_groups = @ + 1]
      [] defect = "bdry_groups" ->
            [m EXCEPT !.bdry_nelements = @ \o <<0>>,
                      !.bdry_nodes = @ \o << <<>> >>]
      [] defect = "missing_face_batch" ->
            [m EXCEPT !.conn_groups[1] = SubSeq(@, 1, Len(@) - 1)]

\* the orders in which a restriction batch may list its entries
BatchOrders == {"ascending", "descending"}

\* the entries of a batch in the opposite order, pairs kept together
FlipBatch(b) ==
    [b EXCEPT
        !.from_element_indices =
            [k \in 1..Len(@) |-> @[Len(@) + 1 - k]],
        !.to_element_indices =
            [k \in 1..Len(@) |-> @[Len(@) + 1 - k]]]

\* the argument with every batch listing its entries in the given order
WithBatchOrder(m, order) ==
    IF order = "ascending" THEN m
    ELSE [m EXCEPT !.conn_groups =
             [g \in 1..Len(@) |-> [j \in 1..Len(@[g]) |-> FlipBatch(@[g][j])]]]

InitOpp ==
    /\ prog = "opp"
    /\ pc = "validate"
    /\ \E nel \in {z \in GroupSizes : SeqSum(z) <= MaxVolEls} :
         \E M \in Matchings(0..(2 * SeqSum(nel) - 1)) :
            \E kind \in {"all", "interior", "boundary"}, dim \in {0, 1} :
                \E defect \in Defects, order \in BatchOrders :
                    mesh = WithDefect(
                               WithBatchOrder(OppInput(nel, M, kind, dim),
                                              order),
                               defect)
    /\ groups = <<>>
    /\ i_src_grp = 0
    /\ src_grp_el_lookup = <<>>
    /\ todo_iters = <<>>
    /\ conn_out = <<>>
    /\ fin = <<>>
    /\ src_unit_nodes = <<>>
    /\ tier = "none"
    /\ niter = 0
    /\ nIterDone = 0
    /\ max_resid = -1
    /\ checked_nodes = <<>>
    /\ done_elements = <<>>
    /\ batches = <<>>
    /\ batch_els = <<>>
    /\ run = 1
    /\ prev_batches = <<>>
    /\ ProjIdle
    /\ err = "none"

---------------------------------------------------------------------------
(* _make_bdry_el_lookup_table and _find_ibatch_for_face *)

\* positions (batch, entry) of the connection group writing table[e][f]
LookupWrites(conn_grp, e, f) ==
    {w \in UNION {{<<j, k>> : k \in 1..Len(conn_grp[j].from_element_indices)} :
                     j \in 1..Len(conn_grp)} :
        /\ conn_grp[w[1]].to_element_face = Some(f)
        /\ conn_grp[w[1]].from_element_indices[w[2]] = e}

\* the write that is executed last
LastWrite(W) ==
    CHOOSE w \in W : \A v \in W :
        v[1] < w[1] \/ (v[1] = w[1] /\ v[2] <= w[2])

\* mutant: the table is filled with 0 before the batches are written
make_bdry_el_lookup_table_zero_fill(m, igrp) ==
    [e \in 1..m.nelements[igrp + 1] |-> [f \in 1..m.nfaces[igrp + 1] |->
        LET W == LookupWrites(m.conn_groups[igrp + 1], e - 1, f - 1)
        IN  IF W = {} THEN 0
            ELSE m.conn_groups[igrp + 1][LastWrite(W)[1]]
                     .to_element_indices[LastWrite(W)[2]]]]

\* iel_lookup: np.full(..., -1), then one assignment per batch
make_bdry_el_lookup_table(m, igrp) ==
    [e \in 1..m.nelements[igrp + 1] |-> [f \in 1..m.nfaces[igrp + 1] |->
        LET W == LookupWrites(m.conn_groups[igrp + 1], e - 1, f - 1)
        IN  IF W = {} THEN -1
            ELSE m.conn_groups[igrp + 1][LastWrite(W)[1]]
                     .to_element_indices[LastWrite(W)[2]]]]

\* the batches of the group with to_element_face == iface
find_ibatch_for_face(vbc_tgt_grp_batches, iface) ==
    SelectSeq(vbc_tgt_grp_batches, LAMBDA b : b.to_element_face = Some(iface))

---------------------------------------------------------------------------
(* make_opposite_face_connection: the body of the innermost loop *)

\* mutant: every entry of the adjacency group, whatever its face
adj_tgt_flags_any_face(adj, i_face_tgt) ==
    SortedSeq({i \in 1..Len(adj.element_faces) :
                  adj.element_faces[i] \in {0, 1}})

\* mutant: the entries on the other faces
adj_tgt_flags_other_face(adj, i_face_tgt) ==
    SortedSeq({i \in 1..Len(adj.element_faces) :
                  adj.element_faces[i] # i_face_tgt})

\* positions where adj.element_faces == i_face_tgt
adj_tgt_flags(adj, i_face_tgt) ==
    SortedSeq({i \in 1..Len(adj.element_faces) :
                  adj.element_faces[i] = i_face_tgt})

\* mutant: the array is taken to be sorted already
argsort_identity(a) == [r \in 1..Len(a) |-> r]

\* np.argsort: positions ordered by value
argsort(a) ==
    [r \in 1..Len(a) |->
        CHOOSE i \in 1..Len(a) :
            Cardinality({j \in 1..Len(a) :
                a[j] < a[i] \/ (a[j] = a[i] /\ j < i)}) = r - 1]

\* np.searchsorted(a, v, sorter=argsort(a)): 0-based leftmost insertion point
searchsorted(a, v) == Cardinality({j \in 1..Len(a) : a[j] < v})

\* vbc_used_els as a list of positions, or IndexError
vbc_used_els(vbc_els, adj_els) ==
    IF Len(adj_els) = Len(vbc_els)
    THEN [err |-> "none", idx |-> [k \in 1..Len(vbc_els) |-> k]]
    ELSE IF \E k \in 1..Len(adj_els) :
                searchsorted(vbc_els, adj_els[k]) >= Len(vbc_els)
         THEN [err |-> "IndexError", idx |-> <<>>]
         ELSE [err |-> "none",
               idx |-> [k \in 1..Len(adj_els) |->
                   argsort(vbc_els)[searchsorted(vbc_els, adj_els[k]) + 1]]]

\* tgt_aff_map=None becomes AffineMap()
DefaultAffineMap(aff_map, dim) ==
    IF aff_map = None
    THEN (IF dim = 0 THEN <<0>> ELSE <<0, 0>>)
    ELSE aff_map

\* mutant: the neighbor is looked up on the target's face number
src_bdry_element_indices_own_face(lookup, adj, flags) ==
    [k \in 1..Len(flags) |->
        NumpyIndex(NumpyIndex(lookup, adj.neighbors[flags[k]]),
                   adj.element_faces[flags[k]])]

\* src_grp_el_lookup[src_vol_element_indices, src_element_faces]
src_bdry_element_indices(lookup, adj, flags) ==
    [k \in 1..Len(flags) |->
        NumpyIndex(NumpyIndex(lookup, adj.neighbors[flags[k]]),
                   adj.neighbor_faces[flags[k]])]

\* the arguments of the _make_cross_face_batches call
CrossFaceArgs(m, i_tgt, i_src, tgt_idx, src_idx, aff_map) ==
    [dim |-> m.bdry_dim,
     tgt_nodes |-> [k \in 1..Len(tgt_idx) |->
                      NumpyIndex(m.bdry_nodes[i_tgt + 1], tgt_idx[k])],
     src_nodes |-> [k \in 1..Len(src_idx) |->
                      NumpyIndex(m.bdry_nodes[i_src + 1], src_idx[k])],
     tgt_aff |-> DefaultAffineMap(aff_map, m.bdry_dim),
     src_aff |-> DefaultAffineMap(None, m.bdry_dim),
     unit_nodes |-> m.unit_nodes,
     i_src_grp |-> i_src,
     tgt_idx |-> tgt_idx,
     src_idx |-> src_idx]

\* one loop body: the batches to append to groups[i_tgt_grp], or the
\* exception it raises
opp_body(m, lookup, i_src, i_tgt, adj, i_face_tgt) ==
    LET face_batches ==
            find_ibatch_for_face(m.conn_groups[i_tgt + 1], i_face_tgt)
        flags == adj_tgt_flags(adj, i_face_tgt)
        adj_els == Take(adj.elements, flags)
    IN  IF Len(face_batches) # 1
        THEN [err |-> "AssertionError", batches |-> <<>>]
        ELSE IF adj_els = <<>>
        THEN [err |-> "none", batches |-> <<>>]
        ELSE LET vbc_els == face_batches[1].from_element_indices
                 used == vbc_used_els(vbc_els, adj_els)
             IN  IF used.err # "none"
                 THEN [err |-> used.err, batches |-> <<>>]
                 ELSE IF Take(vbc_els, used.idx) # adj_els
                 THEN [err |-> "AssertionError", batches |-> <<>>]
                 ELSE make_cross_face_batches(
                          CrossFaceArgs(m, i_tgt, i_src,
                              Take(face_batches[1].to_element_indices, used.idx),
                              src_bdry_element_indices(lookup, adj, flags),
                              adj.aff_map))

RECURSIVE Concat(_)
Concat(seqs) == IF seqs = <<>> THEN <<>> ELSE Head(seqs) \o Concat(Tail(seqs))

\* the interior adjacency groups of target group i_tgt towards i_src
adj_grps(m, i_tgt, i_src) ==
    SelectSeq(m.facial_adjacency_groups[i_tgt + 1],
              LAMBDA adj : adj.kind = "interior" /\ adj.ineighbor_group = i_src)

\* mutant: only the first face of each target group is visited
LoopBodies_first_face(m, i_src) ==
    Concat([t \in 1..m.ngrps |->
        Concat([a \in 1..Len(adj_grps(m, t - 1, i_src)) |->
            [f \in 1..1 |->
                [i_tgt_grp |-> t - 1,
                 adj |-> adj_grps(m, t - 1, i_src)[a],
                 i_face_tgt |-> f - 1]]])])

\* the loop bodies run for source group i_src, in loop order
LoopBodies(m, i_src) ==
    Concat([t \in 1..m.ngrps |->
        Concat([a \in 1..Len(adj_grps(m, t - 1, i_src)) |->
            [f \in 1..m.nfaces[t] |->
                [i_tgt_grp |-> t - 1,
                 adj |-> adj_grps(m, t - 1, i_src)[a],
                 i_face_tgt |-> f - 1]]])])

\* mutant: to_element_face is not looked at
IsRestriction_any_face(m) ==
    /\ \A g \in 1..Len(m.conn_groups) : \A j \in 1..Len(m.conn_groups[g]) :
        m.conn_groups[g][j].from_group_index = g - 1
    /\ Len(m.conn_groups) = m.n_vol_groups
    /\ Len(m.conn_groups) = Len(m.bdry_nelements)

\* "make sure we were handed a volume-to-boundary connection"
IsRestriction(m) ==
    /\ \A g \in 1..Len(m.conn_groups) : \A j \in 1..Len(m.conn_groups[g]) :
        /\ m.conn_groups[g][j].from_group_index = g - 1
        /\ m.conn_groups[g][j].to_element_face # None
    /\ Len(m.conn_groups) = m.n_vol_groups
    /\ Len(m.conn_groups) = Len(m.bdry_nelements)

---------------------------------------------------------------------------
(* make_opposite_face_connection, step by step *)

OppValidate ==
    /\ prog = "opp" /\ pc = "validate"
    /\ IF IsRestriction(mesh)
       THEN /\ groups' = [g \in 1..Len(mesh.conn_groups) |-> <<>>]
            /\ i_src_grp' = 0
            /\ pc' = "src_loop"
            /\ err' = err
       ELSE /\ pc' = "failed"
            /\ err' = "AssertionError"
            /\ UNCHANGED <<groups, i_src_grp>>
    /\ UNCHANGED <<projVars, faceVars, prog, mesh, src_grp_el_lookup, todo_iters,
                   conn_out>>

\* for i_src_grp in range(ngrps): src_grp_el_lookup = ...
OppSrcGroup ==
    /\ prog = "opp" /\ pc = "src_loop"
    /\ i_src_grp < Len(mesh.conn_groups)
    /\ src_grp_el_lookup' = make_bdry_el_lookup_table(mesh, i_src_grp)
    /\ todo_iters' = LoopBodies(mesh, i_src_grp)
    /\ pc' = "body"
    /\ UNCHANGED <<projVars, faceVars, prog, mesh, groups, i_src_grp, conn_out, err>>

\* one body of the loop over (i_tgt_grp, adj, i_face_tgt)
OppBody ==
    /\ prog = "opp" /\ pc = "body"
    /\ todo_iters # <<>>
    /\ LET it == Head(todo_iters)
           r == opp_body(mesh, src_grp_el_lookup, i_src_grp,
                         it.i_tgt_grp, it.adj, it.i_face_tgt)
       IN  IF r.err = "none"
           THEN /\ groups' = [groups EXCEPT
                                 ![it.i_tgt_grp + 1] = @ \o r.batches]
                /\ todo_iters' = Tail(todo_iters)
                /\ UNCHANGED <<pc, err>>
           ELSE /\ pc' = "failed"
                /\ err' = r.err
                /\ UNCHANGED <<groups, todo_iters>>
    /\ UNCHANGED <<projVars, faceVars, prog, mesh, i_src_grp, src_grp_el_lookup,
                   conn_out>>

\* the loops over target groups are exhausted for this source group
OppNextSrc ==
    /\ prog = "opp" /\ pc = "body"
    /\ todo_iters = <<>>
    /\ i_src_grp' = i_src_grp + 1
    /\ pc' = "src_loop"
    /\ UNCHANGED <<projVars, faceVars, prog, mesh, groups, src_grp_el_lookup,
                   todo_iters, conn_out, err>>

\* return DirectDiscretizationConnection(..., is_surjective=True)
OppReturn ==
    /\ prog = "opp" /\ pc = "src_loop"
    /\ i_src_grp = Len(mesh.conn_groups)
    /\ conn_out' = [from_discr |-> "bdry_discr",
                    to_discr |-> "bdry_discr",
                    groups |-> groups,
                    is_surjective |-> TRUE]
    /\ pc' = "done"
    /\ UNCHANGED <<projVars, faceVars, prog, mesh, groups, i_src_grp,
                   src_grp_el_lookup, todo_iters, err>>

NextOpp ==
    \/ OppValidate
    \/ OppSrcGroup
    \/ OppBody
    \/ OppNextSrc
    \/ OppReturn

SpecOpp == InitOpp /\ [][NextOpp]_vars

---------------------------------------------------------------------------
(* Inputs of make_partition_connection: a local and a remote part.  The    *)
(* groups of both parts are numbered in one list, local groups first, and  *)
(* X pairs faces of the local part with faces of the remote part.  Both    *)
(* parts are restricted to the faces on their common boundary.             *)

\* pairings of local with remote faces
CrossMatchings(nelL, nelR) ==
    {X \in Matchings(0..(2 * SeqSum(nelL \o nelR) - 1)) :
        \A p \in X : \E a, b \in p :
            /\ a < 2 * SeqSum(nelL)
            /\ b >= 2 * SeqSum(nelL)}

\* InterPartAdjacencyGroup of remote group r: neighbors are mesh-wide
\* element numbers of the local part
InterPartAdjacencyGroup(nelL, nelR, X, r) ==
    LET ids == SortedSeq({id \in GroupFaces(nelL \o nelR, Len(nelL) + r) :
                   Partner(X, id) # -1})
    IN  [kind |-> "interpart",
         igroup |-> r,
         elements |-> [k \in 1..Len(ids) |->
                          FaceElement(nelL \o nelR, ids[k])],
         element_faces |-> [k \in 1..Len(ids) |-> FaceNumber(ids[k])],
         neighbors |-> [k \in 1..Len(ids) |-> Partner(X, ids[k]) \div 2],
         neighbor_faces |-> [k \in 1..Len(ids) |->
                          FaceNumber(Partner(X, ids[k]))],
         aff_map |-> None]

\* RemoteGroupInfo of remote group r, from the batches of the remote
\* part's restriction
RemoteGroupInfo(nelL, nelR, X, r) ==
    LET bs == RestrictionBatches(nelL \o nelR, X, "interior", Len(nelL) + r)
    IN  [inter_part_adj_groups |->
             SelectSeq(<< InterPartAdjacencyGroup(nelL, nelR, X, r) >>,
                       HasElements),
         vol_elem_indices |->
             bs[1].from_element_indices \o bs[2].from_element_indices,
         bdry_faces |->
             [k \in 1..Len(bs[1].from_element_indices) |-> 0]
             \o [k \in 1..Len(bs[2].from_element_indices) |-> 1],
         bdry_elem_indices |->
             bs[1].to_element_indices \o bs[2].to_element_indices]

\* everything make_partition_connection reads from its arguments
PartInput(nelL, nelR, X, dim) ==
    [ngrps |-> Len(nelL),
     nelements |-> nelL,
     nfaces |-> [g \in 1..Len(nelL) |-> 2],
     base_element_nrs |->
        [g \in 1..Len(nelL) |-> base_element_nrs(nelL, g - 1)],
     conn_groups |->
        [g \in 1..Len(nelL) |->
            RestrictionBatches(nelL \o nelR, X, "interior", g - 1)],
     n_vol_groups |-> Len(nelL),
     bdry_dim |-> dim,
     bdry_nelements |->
        [g \in 1..Len(nelL) |->
            Len(BdryFaceIds(nelL \o nelR, X, "interior", g - 1))],
     bdry_nodes |->
        [g \in 1..Len(nelL) |->
            [b \in 1..Len(BdryFaceIds(nelL \o nelR, X, "interior", g - 1)) |->
                FaceNodes(dim, X,
                    BdryFaceIds(nelL \o nelR, X, "interior", g - 1)[b])]],
     remote_bdry_nodes |->
        [r \in 1..Len(nelR) |->
            [b \in 1..Len(BdryFaceIds(nelL \o nelR, X, "interior",
                                      Len(nelL) + r - 1)) |->
                FaceNodes(dim, X,
                    BdryFaceIds(nelL \o nelR, X, "interior",
                                Len(nelL) + r - 1)[b])]],
     remote_group_infos |->
        [r \in 1..Len(nelR) |-> RemoteGroupInfo(nelL, nelR, X, r - 1)],
     unit_nodes |-> IF dim = 0 THEN << <<>> >> ELSE SegmentUnitNodes]

\* the ways the index arrays can leave out a face of the common boundary
PartDefects == {"none", "local_missing", "remote_missing"}

\* the arguments with one defect: the first batch of the first local group
\* lacks its first entry, or every remote group's index arrays lack their
\* first entry
WithPartDefect(m, defect) ==
    CASE defect = "none" -> m
      [] defect = "local_missing" ->
            [m EXCEPT
                !.conn_groups[1][1].from_element_indices =
                    IF @ = <<>> THEN @ ELSE Tail(@),
                !.conn_groups[1][1].to_element_indices =
                    IF @ = <<>> THEN @ ELSE Tail(@)]
      [] defect = "remote_missing" ->
            [m EXCEPT !.remote_group_infos =
                [r \in 1..Len(@) |->
                    [@[r] EXCEPT
                        !.vol_elem_indices = IF @ = <<>> THEN @ ELSE Tail(@),
                        !.bdry_faces = IF @ = <<>> THEN @ ELSE Tail(@),
                        !.bdry_elem_indices =
                            IF @ = <<>> THEN @ ELSE Tail(@)]]]

InitPart ==
    /\ prog = "part"
    /\ pc = "validate"
    /\ \E nelL \in GroupSizes, nelR \in GroupSizes :
         /\ SeqSum(nelL) + SeqSum(nelR) <= MaxVolEls
         /\ \E X \in CrossMatchings(nelL, nelR), dim \in {0, 1} :
              \E defect \in PartDefects :
                mesh = WithPartDefect(PartInput(nelL, nelR, X, dim), defect)
    /\ groups = <<>>
    /\ i_src_grp = 0
    /\ src_grp_el_lookup = <<>>
    /\ todo_iters = <<>>
    /\ conn_out = <<>>
    /\ fin = <<>>
    /\ src_unit_nodes = <<>>
    /\ tier = "none"
    /\ niter = 0
    /\ nIterDone = 0
    /\ max_resid = -1
    /\ checked_nodes = <<>>
    /\ done_elements = <<>>
    /\ batches = <<>>
    /\ batch_els = <<>>
    /\ run = 1
    /\ prev_batches = <<>>
    /\ ProjIdle
    /\ err = "none"

---------------------------------------------------------------------------
(* make_partition_connection *)

\* meshmode.mesh.processing.find_group_indices: the group each mesh-wide
\* element number falls into
find_group_indices(m, meshwide_elems) ==
    [k \in 1..Len(meshwide_elems) |->
        Cardinality({g \in 1..m.ngrps :
            meshwide_elems[k] >= m.base_element_nrs[g] + m.nelements[g]})]

\* mutant: the table is filled with 0 before the entries are written
remote_vol_to_bdry_zero_fill(rgi) ==
    [e \in 1..(SetMax({rgi.vol_elem_indices[k] :
                          k \in 1..Len(rgi.vol_elem_indices)}) + 1) |->
        [f \in 1..(SetMax({rgi.bdry_faces[k] :
                              k \in 1..Len(rgi.bdry_faces)}) + 1) |->
            LET W == {k \in 1..Len(rgi.vol_elem_indices) :
                         /\ rgi.vol_elem_indices[k] = e - 1
                         /\ rgi.bdry_faces[k] = f - 1}
            IN  IF W = {} THEN 0 ELSE rgi.bdry_elem_indices[SetMax(W)]]]

\* np.full(..., -1), then remote_vol_to_bdry[vol_elem_indices, bdry_faces]
\* = bdry_elem_indices
remote_vol_to_bdry(rgi) ==
    [e \in 1..(SetMax({rgi.vol_elem_indices[k] :
                          k \in 1..Len(rgi.vol_elem_indices)}) + 1) |->
        [f \in 1..(SetMax({rgi.bdry_faces[k] :
                              k \in 1..Len(rgi.bdry_faces)}) + 1) |->
            LET W == {k \in 1..Len(rgi.vol_elem_indices) :
                         /\ rgi.vol_elem_indices[k] = e - 1
                         /\ rgi.bdry_faces[k] = f - 1}
            IN  IF W = {} THEN -1 ELSE rgi.bdry_elem_indices[SetMax(W)]]]

\* np.where(i_local_grps == i_local_grp)[0], as 1-based positions
local_indices(m, rem_ipag, i_local_grp) ==
    SortedSeq({k \in 1..Len(rem_ipag.neighbors) :
        find_group_indices(m, rem_ipag.neighbors)[k] = i_local_grp})

matched_local_bdry_el_indices(m, rem_ipag, i_local_grp) ==
    LET li == local_indices(m, rem_ipag, i_local_grp)
    IN  [k \in 1..Len(li) |->
            NumpyIndex(NumpyIndex(make_bdry_el_lookup_table(m, i_local_grp),
                           rem_ipag.neighbors[li[k]]
                               - m.base_element_nrs[i_local_grp + 1]),
                       rem_ipag.neighbor_faces[li[k]])]

matched_remote_bdry_el_indices(m, rgi, rem_ipag, i_local_grp) ==
    LET li == local_indices(m, rem_ipag, i_local_grp)
    IN  [k \in 1..Len(li) |->
            NumpyIndex(NumpyIndex(remote_vol_to_bdry(rgi),
                           rem_ipag.elements[li[k]]),
                       rem_ipag.element_faces[li[k]])]

\* mutant: the batches name the local group as their source
PartCrossFaceArgs_local_group(m, i_local_grp, rem_ipag, tgt_idx, src_idx) ==
    [dim |-> m.bdry_dim,
     tgt_nodes |-> [k \in 1..Len(tgt_idx) |->
                      NumpyIndex(m.bdry_nodes[i_local_grp + 1], tgt_idx[k])],
     src_nodes |-> [k \in 1..Len(src_idx) |->
                      NumpyIndex(m.remote_bdry_nodes[rem_ipag.igroup + 1],
                                 src_idx[k])],
     tgt_aff |-> DefaultAffineMap(None, m.bdry_dim),
     src_aff |-> DefaultAffineMap(rem_ipag.aff_map, m.bdry_dim),
     unit_nodes |-> m.unit_nodes,
     i_src_grp |-> i_local_grp,
     tgt_idx |-> tgt_idx,
     src_idx |-> src_idx]

\* the arguments of the _make_cross_face_batches call
PartCrossFaceArgs(m, i_local_grp, rem_ipag, tgt_idx, src_idx) ==
    [dim |-> m.bdry_dim,
     tgt_nodes |-> [k \in 1..Len(tgt_idx) |->
                      NumpyIndex(m.bdry_nodes[i_local_grp + 1], tgt_idx[k])],
     src_nodes |-> [k \in 1..Len(src_idx) |->
                      NumpyIndex(m.remote_bdry_nodes[rem_ipag.igroup + 1],
                                 src_idx[k])],
     tgt_aff |-> DefaultAffineMap(None, m.bdry_dim),
     src_aff |-> DefaultAffineMap(rem_ipag.aff_map, m.bdry_dim),
     unit_nodes |-> m.unit_nodes,
     i_src_grp |-> rem_ipag.igroup,
     tgt_idx |-> tgt_idx,
     src_idx |-> src_idx]

\* one body of the loop over i_local_grp: the batches to append to
\* part_batches[i_local_grp], or the exception it raises
part_body(m, rgi, rem_ipag, i_local_grp) ==
    LET loc == matched_local_bdry_el_indices(m, rem_ipag, i_local_grp)
        rem == matched_remote_bdry_el_indices(m, rgi, rem_ipag, i_local_grp)
        li == local_indices(m, rem_ipag, i_local_grp)
    IN  IF rgi.vol_elem_indices = <<>>
        THEN [err |-> "ValueError", batches |-> <<>>]
        ELSE IF \E k \in 1..Len(loc) : loc[k] < 0
        THEN [err |-> "AssertionError", batches |-> <<>>]
        ELSE IF \E k \in 1..Len(li) :
                    \/ rem_ipag.elements[li[k]] >= Len(remote_vol_to_bdry(rgi))
                    \/ rem_ipag.element_faces[li[k]]
                           >= Len(remote_vol_to_bdry(rgi)[1])
        THEN [err |-> "IndexError", batches |-> <<>>]
        ELSE IF \E k \in 1..Len(rem) : rem[k] < 0
        THEN [err |-> "AssertionError", batches |-> <<>>]
        ELSE make_cross_face_batches(
                 PartCrossFaceArgs(m, i_local_grp, rem_ipag, loc, rem))

\* np.unique(i_local_grps)
UniqueGroups(m, rem_ipag) ==
    SortedSeq({find_group_indices(m, rem_ipag.neighbors)[k] :
                  k \in 1..Len(rem_ipag.neighbors)})

\* the loop bodies of the three nested loops, in loop order
PartLoopBodies(m) ==
    Concat([r \in 1..Len(m.remote_group_infos) |->
        Concat([a \in 1..Len(m.remote_group_infos[r].inter_part_adj_groups) |->
            [u \in 1..Len(UniqueGroups(m,
                    m.remote_group_infos[r].inter_part_adj_groups[a])) |->
                [rgi |-> m.remote_group_infos[r],
                 rem_ipag |-> m.remote_group_infos[r].inter_part_adj_groups[a],
                 i_local_grp |-> UniqueGroups(m,
                     m.remote_group_infos[r].inter_part_adj_groups[a])[u]]]])])

\* part_batches = [[] for _ in local_vol_groups]; assert len(...) == len(...)
PartValidate ==
    /\ prog = "part" /\ pc = "validate"
    /\ IF mesh.n_vol_groups = Len(mesh.bdry_nelements)
       THEN /\ groups' = [g \in 1..mesh.n_vol_groups |-> <<>>]
            /\ todo_iters' = PartLoopBodies(mesh)
            /\ pc' = "part_loop"
            /\ err' = err
       ELSE /\ pc' = "failed"
            /\ err' = "AssertionError"
            /\ UNCHANGED <<groups, todo_iters>>
    /\ UNCHANGED <<projVars, faceVars, prog, mesh, i_src_grp, src_grp_el_lookup,
                   conn_out>>

\* one body of the loop over (rgi, rem_ipag, i_local_grp)
PartBody ==
    /\ prog = "part" /\ pc = "part_loop"
    /\ todo_iters # <<>>
    /\ LET it == Head(todo_iters)
           r == part_body(mesh, it.rgi, it.rem_ipag, it.i_local_grp)
       IN  IF r.err = "none"
           THEN /\ groups' = [groups EXCEPT
                                 ![it.i_local_grp + 1] = @ \o r.batches]
                /\ todo_iters' = Tail(todo_iters)
                /\ UNCHANGED <<pc, err>>
           ELSE /\ pc' = "failed"
                /\ err' = r.err
                /\ UNCHANGED <<groups, todo_iters>>
    /\ UNCHANGED <<projVars, faceVars, prog, mesh, i_src_grp, src_grp_el_lookup,
                   conn_out>>

\* return DirectDiscretizationConnection(..., is_surjective=True)
PartReturn ==
    /\ prog = "part" /\ pc = "part_loop"
    /\ todo_iters = <<>>
    /\ conn_out' = [from_discr |-> "remote_bdry_discr",
                    to_discr |-> "local_bdry_conn.to_discr",
                    groups |-> groups,
                    is_surjective |-> TRUE]
    /\ pc' = "done"
    /\ UNCHANGED <<projVars, faceVars, prog, mesh, groups, i_src_grp,
                   src_grp_el_lookup, todo_iters, err>>

NextPart ==
    \/ PartValidate
    \/ PartBody
    \/ PartReturn

SpecPart == InitPart /\ [][NextPart]_vars

\* both connection builders
InitConn == InitOpp \/ InitPart

NextConn == NextOpp \/ NextPart

SpecConn == InitConn /\ [][NextConn]_vars

---------------------------------------------------------------------------
(* Properties of the connection builders *)

\* boundary elements the restriction of a group gives for face f of its
\* volume element e
RestrictionImage(conn_grp, e, f) ==
    {conn_grp[w[1]].to_element_indices[w[2]] : w \in LookupWrites(conn_grp, e, f)}

\* entry i of adjacency record adj of target group g lists, for the face
\* behind target boundary element tgt, the face behind source boundary
\* element src of group s
ListsNeighbor(g, adj, i, tgt, s, src) ==
    /\ adj.kind = "interior"
    /\ adj.ineighbor_group = s
    /\ tgt \in RestrictionImage(mesh.conn_groups[g + 1],
                                adj.elements[i], adj.element_faces[i])
    /\ src \in RestrictionImage(mesh.conn_groups[s + 1],
                                adj.neighbors[i], adj.neighbor_faces[i])

\* adjacency entries (record, position) of target group g for the face
\* behind boundary element tgt
EntriesFor(g, tgt) ==
    {ai \in UNION {{<<a, i>> :
                      i \in 1..Len(mesh.facial_adjacency_groups[g + 1][a].elements)} :
                   a \in 1..Len(mesh.facial_adjacency_groups[g + 1])} :
        LET adj == mesh.facial_adjacency_groups[g + 1][ai[1]]
        IN  /\ adj.kind = "interior"
            /\ tgt \in RestrictionImage(mesh.conn_groups[g + 1],
                          adj.elements[ai[2]], adj.element_faces[ai[2]])}

\* C1: in the connection make_opposite_face_connection returns every entry of
\* every batch of target group g pairs the restriction image of a face
\* (e, f) of group g with the restriction image of the (neighbor, neighbor
\* face) that an interior adjacency record of g towards the batch's source
\* group lists for (e, f), and with nothing else.
C1_AdjacencyPairing ==
    prog = "opp" /\ pc = "done" =>
        /\ conn_out.groups = groups
        /\ \A g \in 1..Len(groups) : \A j \in 1..Len(groups[g]) :
            /\ Len(groups[g][j].from_element_indices)
                   = Len(groups[g][j].to_element_indices)
            /\ \A k \in 1..Len(groups[g][j].to_element_indices) :
                /\ EntriesFor(g - 1, groups[g][j].to_element_indices[k]) # {}
                /\ \A ai \in EntriesFor(g - 1,
                                        groups[g][j].to_element_indices[k]) :
                     ListsNeighbor(g - 1,
                         mesh.facial_adjacency_groups[g][ai[1]], ai[2],
                         groups[g][j].to_element_indices[k],
                         groups[g][j].from_group_index,
                         groups[g][j].from_element_indices[k])

\* a connection between two groups has been returned, with a batch of
\* two entries and a batch whose source group is not the target group
C1_Witness ==
    /\ prog = "opp" /\ pc = "done"
    /\ \E g \in 1..Len(conn_out.groups) :
        /\ \E j \in 1..Len(conn_out.groups[g]) :
             conn_out.groups[g][j].from_group_index # g - 1
        /\ \E j \in 1..Len(conn_out.groups[g]) :
             Len(conn_out.groups[g][j].to_element_indices) >= 2

\* target elements the batches of a connection group write
CoveredElements(grp) ==
    UNION {{grp[j].to_element_indices[k] :
               k \in 1..Len(grp[j].to_element_indices)} : j \in 1..Len(grp)}

\* C2 as stated: a connection returned by either builder has is_surjective
\* set and its batches' to_element_indices cover every element of to_discr.
C2_Surjective ==
    pc = "done" =>
        /\ conn_out.is_surjective
        /\ \A g \in 1..Len(conn_out.groups) :
             CoveredElements(conn_out.groups[g])
                 = 0..(mesh.bdry_nelements[g] - 1)

\* all (batch, entry) positions of a connection group
Entries(grp) ==
    UNION {{<<j, k>> : k \in 1..Len(grp[j].to_element_indices)} :
              j \in 1..Len(grp)}

\* C3: in a connection built by either builder no target boundary element
\* index occurs twice among the to_element_indices of the batches of one
\* target group.
C3_NoDuplicateTargets ==
    /\ pc = "done" => conn_out.groups = groups
    /\ \A g \in 1..Len(groups) : \A v, w \in Entries(groups[g]) :
          groups[g][v[1]].to_element_indices[v[2]]
              = groups[g][w[1]].to_element_indices[w[2]]
          => v = w

\* a builder has returned a target group filled by several loop bodies
C3_Witness ==
    /\ pc = "done"
    /\ \E g \in 1..Len(conn_out.groups) :
        /\ Len(conn_out.groups[g]) >= 2
        /\ Cardinality(CoveredElements(conn_out.groups[g])) >= 2

---------------------------------------------------------------------------
(* Validation in make_opposite_face_connection *)

\* some batch of some group names another group as its source, or has no
\* to_element_face
HasForeignBatch ==
    \E g \in 1..Len(mesh.conn_groups) : \E j \in 1..Len(mesh.conn_groups[g]) :
        \/ mesh.conn_groups[g][j].from_group_index # g - 1
        \/ mesh.conn_groups[g][j].to_element_face = None

\* the connection has another number of groups than the volume or the
\* boundary discretization
GroupCountsDiffer ==
    \/ Len(mesh.conn_groups) # mesh.n_vol_groups
    \/ Len(mesh.conn_groups) # Len(mesh.bdry_nelements)

\* C11: make_opposite_face_connection rejects an argument with a foreign
\* or faceless batch or with differing group counts before any lookup
\* table or batch is built, and returns no connection for it.
C11_RejectsNonRestriction ==
    prog = "opp" /\ (HasForeignBatch \/ GroupCountsDiffer) =>
        /\ pc \in {"validate", "failed"}
        /\ pc = "failed" => err = "AssertionError"
        /\ src_grp_el_lookup = <<>>
        /\ groups = <<>>
        /\ todo_iters = <<>>
        /\ conn_out = <<>>
        /\ batches = <<>>

\* an argument whose only defect is a batch without to_element_face has
\* been rejected
C11_Witness ==
    /\ prog = "opp" /\ pc = "failed" /\ err = "AssertionError"
    /\ ~GroupCountsDiffer
    /\ \E g \in 1..Len(mesh.conn_groups) : \E j \in 1..Len(mesh.conn_groups[g]) :
        /\ mesh.conn_groups[g][j].to_element_face = None
        /\ mesh.conn_groups[g][j].from_group_index = g - 1

---------------------------------------------------------------------------
(* L2ProjectionInverseDiscretizationConnection                             *)
(* (meshmode/discretization/connection/projection.py): construction.       *)
(* A discretization is a record of its identity, its dimension and the     *)
(* kinds of its element groups; a connection record carries a type field   *)
(* in place of its Python class.                                           *)

MaxLinks == 2

MaxGroups == 2

\* kinds of element groups: nodal with an orthonormal basis, nodal with a
\* basis that is not orthonormal, modal (not interpolatory) with an
\* orthonormal basis
GroupKinds == {"nodal", "monomial", "modal"}

\* the array contexts an application may be given
ArrayContexts == {1, 2}

\* applications of one inverse connection in a behaviour
MaxCalls == 2

\* grp.is_orthonormal_basis()
is_orthonormal_basis(grp) == grp \in {"nodal", "modal"}

\* isinstance(grp, InterpolatoryElementGroupBase)
IsInterpolatory(grp) == grp \in {"nodal", "monomial"}

DiscrChoices(maxg) ==
    {[dim |-> d, groups |-> ks] :
        d \in 1..2, ks \in UNION {[1..n -> GroupKinds] : n \in 1..maxg}}

\* a discretization whose groups have nel elements each
Discretization(id, c, nel) ==
    [id |-> id,
     dim |-> c.dim,
     groups |-> c.groups,
     nelements |-> [g \in 1..Len(c.groups) |-> nel]]

\* a DirectDiscretizationConnection
DirectConnection(from_discr, to_discr, grps) ==
    [type |-> "direct",
     from_discr |-> from_discr,
     to_discr |-> to_discr,
     groups |-> grps]

\* ChainedDiscretizationConnection(connections)
ChainedDiscretizationConnection(cs) ==
    [type |-> "chained", connections |-> cs]

\* the links c1, ..., cn between the discretizations ds[0], ..., ds[n]
Links(ds, n) ==
    [i \in 1..n |-> DirectConnection(Discretization(i - 1, ds[i - 1], 1),
                                     Discretization(i, ds[i], 1), <<>>)]

\* forward connections with batches: every group of from_discr has one
\* element, which to_discr keeps ("identity") or splits into two children
\* ("refine"), or the element of the first group of from_discr is split
\* into children that lie in different groups of to_discr ("shared")
ForwardKinds == {"identity", "refine", "shared"}

\* unit nodes of child c in the reference coordinates of its parent
ChildUnitNodes(c) ==
    IF c = 0 THEN << <<-RefHalf>>, <<0>> >> ELSE << <<0>>, <<RefHalf>> >>

ForwardBatches(g, fwd) ==
    IF fwd = "identity"
    THEN << InterpolationBatch(g, <<0>>, <<0>>, SegmentUnitNodes, None) >>
    ELSE IF fwd = "shared"
    THEN << InterpolationBatch(0, <<0>>, <<0>>, ChildUnitNodes(g % 2), None) >>
    ELSE << InterpolationBatch(g, <<0>>, <<0>>, ChildUnitNodes(0), None),
            InterpolationBatch(g, <<0>>, <<1>>, ChildUnitNodes(1), None) >>

\* conn.groups, one entry per group of to_discr; left empty when the two
\* discretizations do not have the same number of groups and no group is
\* shared
ForwardGroups(a, b, fwd) ==
    IF Len(a.groups) = Len(b.groups) \/ fwd = "shared"
    THEN [g \in 1..Len(b.groups) |-> ForwardBatches(g - 1, fwd)]
    ELSE <<>>

ProjArguments ==
    {DirectConnection(Discretization(0, a, 1),
                      Discretization(1, b, IF fwd = "refine" THEN 2 ELSE 1),
                      ForwardGroups(a, b, fwd)) :
        a \in DiscrChoices(MaxGroups), b \in DiscrChoices(MaxGroups),
        fwd \in ForwardKinds}
    \cup UNION {{ChainedDiscretizationConnection(Links(ds, n)) :
                    ds \in [0..n -> DiscrChoices(1)]} : n \in 0..MaxLinks}
    \cup UNION {{[type |-> "list", connections |-> Links(ds, n)] :
                    ds \in [0..n -> DiscrChoices(1)]} : n \in 1..MaxLinks}

InitProj ==
    /\ prog = "proj"
    /\ pc = "new"
    /\ connections \in ProjArguments
    /\ is_surjective \in BOOLEAN
    /\ todo_links = <<>>
    /\ conns = <<>>
    /\ inverse = <<>>
    /\ call_ary = <<>>
    /\ call_result = <<>>
    /\ calls = <<>>
    /\ memo_weights = [k \in {<<>>} |-> None]
    /\ memo_vdm = [actx \in ArrayContexts |-> [k \in GroupKinds |-> None]]
    /\ n_weights = 0
    /\ n_vdm = [actx \in ArrayContexts |-> [k \in GroupKinds |-> 0]]
    /\ call_used = <<>>
    /\ KnlIdle
    /\ XfIdle
    /\ err = "none"
    /\ mesh = <<>>
    /\ groups = <<>>
    /\ i_src_grp = 0
    /\ src_grp_el_lookup = <<>>
    /\ todo_iters = <<>>
    /\ conn_out = <<>>
    /\ fin = <<>>
    /\ src_unit_nodes = <<>>
    /\ tier = "none"
    /\ niter = 0
    /\ nIterDone = 0
    /\ max_resid = -1
    /\ checked_nodes = <<>>
    /\ done_elements = <<>>
    /\ batches = <<>>
    /\ batch_els = <<>>
    /\ run = 1
    /\ prev_batches = <<>>

\* mutant: the links are taken in their given order
reversed_in_order(cs) == cs

\* reversed(connections)
reversed(cs) == [i \in 1..Len(cs) |-> cs[Len(cs) + 1 - i]]

\* mutant: only the first group of to_discr is asked for its basis
AllOrthonormal_first_group(discr) == is_orthonormal_basis(discr.groups[1])

\* all(g.is_orthonormal_basis() for g in conn.to_discr.groups)
AllOrthonormal(discr) ==
    \A g \in 1..Len(discr.groups) : is_orthonormal_basis(discr.groups[g])

\* __init__: the exception it raises, or "none"
init_error(conn) ==
    IF conn.from_discr.dim # conn.to_discr.dim THEN "RuntimeError"
    ELSE IF ~AllOrthonormal(conn.to_discr) THEN "RuntimeError"
    ELSE "none"

\* the instance __init__ leaves behind
L2ProjectionInverse(conn, surj) ==
    [type |-> "l2inverse",
     conn |-> conn,
     from_discr |-> conn.to_discr,
     to_discr |-> conn.from_discr,
     is_surjective |-> surj]

\* __new__: dispatch on the class of the argument
ProjNew ==
    /\ prog = "proj" /\ pc = "new"
    /\ IF connections.type = "direct"
       THEN /\ pc' = "init"
            /\ UNCHANGED <<todo_links, inverse>>
       ELSE IF connections.type = "chained" /\ Len(connections.connections) = 0
       THEN /\ inverse' = connections
            /\ pc' = "done"
            /\ UNCHANGED todo_links
       ELSE /\ todo_links' = reversed(connections.connections)
            /\ pc' = "loop"
            /\ UNCHANGED inverse
    /\ UNCHANGED <<faceVars, bldVars, prog, err, connections, is_surjective,
                   conns, call_ary, call_result, memoVars, knlVars, xfVars>>

\* __init__ on the instance made for a direct connection
ProjInit ==
    /\ prog = "proj" /\ pc = "init"
    /\ IF init_error(connections) = "none"
       THEN /\ inverse' = L2ProjectionInverse(connections, is_surjective)
            /\ pc' = "done"
            /\ err' = err
       ELSE /\ pc' = "failed"
            /\ err' = init_error(connections)
            /\ UNCHANGED inverse
    /\ UNCHANGED <<faceVars, bldVars, prog, connections, is_surjective,
                   todo_links, conns, call_ary, call_result, memoVars, knlVars, xfVars>>

\* conns.append(cls(cnx, is_surjective=is_surjective))
ProjLink ==
    /\ prog = "proj" /\ pc = "loop"
    /\ todo_links # <<>>
    /\ IF init_error(Head(todo_links)) = "none"
       THEN /\ conns' = Append(conns,
                            L2ProjectionInverse(Head(todo_links), is_surjective))
            /\ todo_links' = Tail(todo_links)
            /\ UNCHANGED <<pc, err>>
       ELSE /\ pc' = "failed"
            /\ err' = init_error(Head(todo_links))
            /\ UNCHANGED <<conns, todo_links>>
    /\ UNCHANGED <<faceVars, bldVars, prog, connections, is_surjective,
                   inverse, call_ary, call_result, memoVars, knlVars, xfVars>>

\* return ChainedDiscretizationConnection(conns)
ProjChain ==
    /\ prog = "proj" /\ pc = "loop"
    /\ todo_links = <<>>
    /\ inverse' = ChainedDiscretizationConnection(conns)
    /\ pc' = "done"
    /\ UNCHANGED <<faceVars, bldVars, prog, err, connections, is_surjective,
                   todo_links, conns, call_ary, call_result, memoVars, knlVars, xfVars>>

---------------------------------------------------------------------------
(* L2ProjectionInverseDiscretizationConnection.__call__ for one-dimensional *)
(* groups with two unit nodes at -1 and 1 and the orthonormal Legendre      *)
(* basis.  Basis function j is kept without its normalisation constant,     *)
(* whose square (2j+1)/2 enters where the Vandermonde matrix is applied;    *)
(* the Jacobian is kept doubled.  With coordinates in fixed point the       *)
(* returned values are in units of 1/ProjScale.                             *)

MaxData == 2

DataValues == {2 * k : k \in 0..MaxData}

ProjScale == 4 * RefHalf * RefHalf * RefHalf

\* nodal data on from_discr of the forward connection: [group][element][node]
CoarseData(ngroups) ==
    [1..ngroups -> [1..1 -> [1..2 -> DataValues]]]

\* the value at reference coordinate x of the interpolant of nodal values u
interpolate(u, x) ==
    (u[1] * (RefHalf - x) + u[2] * (RefHalf + x)) \div (2 * RefHalf)

\* the batch of a connection group that writes target element e
BatchFor(cgrp, e) ==
    CHOOSE b \in 1..Len(cgrp) :
        \E k \in 1..Len(cgrp[b].to_element_indices) :
            cgrp[b].to_element_indices[k] = e

\* DirectDiscretizationConnection.__call__: the forward connection applied
\* to u
forward_apply(conn, u) ==
    [g \in 1..Len(conn.groups) |->
        [e \in 1..conn.to_discr.nelements[g] |->
            [q \in 1..2 |->
                LET batch == conn.groups[g][BatchFor(conn.groups[g], e - 1)]
                    k == CHOOSE k \in 1..Len(batch.to_element_indices) :
                             batch.to_element_indices[k] = e - 1
                IN  interpolate(
                        u[batch.from_group_index + 1]
                         [batch.from_element_indices[k] + 1],
                        batch.result_unit_nodes[q][1])]]]

\* grp.quadrature_rule().weights
quadrature_weights == <<1, 1>>

\* twice matrices[0] @ batch.result_unit_nodes.T: the derivative of the
\* interpolant of the batch's nodes, the same at both nodes
jac(batch) ==
    [q \in 1..2 |->
        batch.result_unit_nodes[2][1] - batch.result_unit_nodes[1][1]]

\* weights[igrp, ibatch] = det(jac) * grp.quadrature_rule().weights
batch_weights(batch) ==
    [q \in 1..2 |-> Abs(jac(batch)[q]) * quadrature_weights[q]]

\* basis function j of the group at x
basis_fn(j, x) == IF j = 0 THEN RefHalf ELSE x

\* twice the square of the normalisation constant of basis function j
NormSq(j) == 2 * j + 1

\* tabulations[ibasis][i_quad]
basis_tabulation(batch) ==
    [ibasis \in 1..2 |-> [q \in 1..2 |->
        basis_fn(ibasis - 1, batch.result_unit_nodes[q][1])]]

\* the conn_projection_knl kernel for one batch
kproj(ary_g, batch, weights, n_to_elements, n_to_nodes) ==
    [el \in 1..n_to_elements |-> [ibasis \in 1..n_to_nodes |->
        SeqSum([iel \in 1..Len(batch.from_element_indices) |->
            IF batch.from_element_indices[iel] = el - 1
            THEN SeqSum([q \in 1..Len(ary_g[batch.to_element_indices[iel] + 1])
                         |->
                     ary_g[batch.to_element_indices[iel] + 1][q]
                     * basis_tabulation(batch)[ibasis][q]
                     * weights[q]])
            ELSE 0])]]

\* c_group_data[igrp] = sum(c_batch_data)
c_group_data(inv, data, weights, igrp) ==
    [el \in 1..inv.to_discr.nelements[igrp] |-> [ibasis \in 1..2 |->
        SeqSum([ib \in 1..Len(inv.conn.groups[igrp]) |->
            kproj(data[inv.conn.groups[igrp][ib].from_group_index + 1],
                  inv.conn.groups[igrp][ib],
                  weights[igrp][ib],
                  inv.to_discr.nelements[igrp], 2)[el][ibasis]])]]

\* vandermonde(grp.basis_obj().functions, grp.unit_nodes)
vandermonde_matrix ==
    [i \in 1..2 |-> [j \in 1..2 |->
        basis_fn(j - 1, SegmentUnitNodes[i][1])]]

\* einsum("ij,ej->ei", vdm, c_i) for every group, vdm[g] being what
\* vandermonde_matrix(grp) returned for group g
l2_call(inv, data, weights, vdm) ==
    [g \in 1..Len(inv.to_discr.groups) |->
        [el \in 1..inv.to_discr.nelements[g] |-> [i \in 1..2 |->
            SeqSum([j \in 1..2 |->
                NormSq(j - 1) * vdm[g][i][j]
                * c_group_data(inv, data, weights, g)[el][j]])]]]

\* the dictionary the body of _batch_weights returns: weights[igrp][ibatch]
weights_dict(inv) ==
    [igrp \in 1..Len(inv.to_discr.groups) |->
        [ib \in 1..Len(inv.conn.groups[igrp]) |->
            batch_weights(inv.conn.groups[igrp][ib])]]

\* grp.discretization_key()
discretization_key(grp) == grp

\* mutant: the computed value is not kept
memoize_store_nothing(cache, key, value) == cache

\* the memoization decorators keep the value under its key
memoize_store(cache, key, value) == [cache EXCEPT ![key] = Some(value)]

\* the calls vandermonde_matrix(grp) of one application, in the order of
\* the groups: the dictionary of the array context, the number of times
\* the body ran for each key, and the matrices returned so far
RECURSIVE vandermonde_calls(_, _, _)
vandermonde_calls(grps, cache, n) ==
    IF grps = <<>> THEN [cache |-> cache, n |-> n, vdm |-> <<>>]
    ELSE LET before == vandermonde_calls(SubSeq(grps, 1, Len(grps) - 1),
                                         cache, n)
             key == discretization_key(grps[Len(grps)])
         IN  IF before.cache[key] # None
             THEN [before EXCEPT
                     !.vdm = Append(@, before.cache[key][1])]
             ELSE [cache |-> memoize_store(before.cache, key,
                                           vandermonde_matrix),
                   n |-> [before.n EXCEPT ![key] = @ + 1],
                   vdm |-> Append(before.vdm, vandermonde_matrix)]

\* mutant: the groups of from_discr are asked for their type
batch_weights_error_from_discr(inv) ==
    IF \E g \in 1..Len(inv.from_discr.groups) :
          ~IsInterpolatory(inv.from_discr.groups[g])
    THEN "ValueError"
    ELSE "none"

\* _batch_weights: the exception it raises, or "none".  The loop over the
\* groups of to_discr stops at the first group that is not interpolatory
\* (ValueError) or has no group in conn.groups (IndexError).
batch_weights_error(inv) ==
    LET bad == {g \in 1..Len(inv.to_discr.groups) :
                   \/ ~IsInterpolatory(inv.to_discr.groups[g])
                   \/ g > Len(inv.conn.groups)}
    IN  IF bad = {} THEN "none"
        ELSE IF ~IsInterpolatory(inv.to_discr.groups[SetMin(bad)])
        THEN "ValueError"
        ELSE "IndexError"

\* __call__: the exception it raises, or "none".  After _batch_weights the
\* loop over conn.groups reads weights[igrp, ibatch], which is missing for
\* a group beyond those of to_discr (KeyError).
call_error(inv) ==
    IF batch_weights_error(inv) # "none" THEN batch_weights_error(inv)
    ELSE IF Len(inv.conn.groups) > Len(inv.to_discr.groups) THEN "KeyError"
    ELSE "none"

\* the inverse connections whose application is modelled: one-dimensional,
\* the forward connection has batches, its to_discr is nodal
Applicable(inv) ==
    /\ inv.type = "l2inverse"
    /\ inv.conn.groups # <<>>
    /\ inv.to_discr.dim = 1
    /\ \A g \in 1..Len(inv.from_discr.groups) :
          inv.from_discr.groups[g] = "nodal"
    /\ \A g \in 1..Len(inv.to_discr.groups) :
          inv.to_discr.groups[g] # "monomial"

\* __call__(ary) on the constructed inverse under array context actx, ary
\* being the forward connection applied to some nodal data.  The memoized
\* _batch_weights runs its body only when the dictionary has no entry for
\* its key (); an exception leaves no entry.
ProjCall ==
    /\ prog = "proj" /\ pc \in {"done", "called", "call_failed"}
    /\ Len(calls) < MaxCalls
    /\ Applicable(inverse)
    /\ \E actx \in ArrayContexts,
          u \in CoarseData(Len(inverse.to_discr.groups)) :
          LET hit == memo_weights[<<>>] # None
              failed == ~hit /\ batch_weights_error(inverse) # "none"
              weights == IF hit THEN memo_weights[<<>>][1]
                         ELSE weights_dict(inverse)
              vc == vandermonde_calls(inverse.to_discr.groups,
                                      memo_vdm[actx], n_vdm[actx])
          IN  /\ calls' = Append(calls, actx)
              /\ call_ary' = forward_apply(inverse.conn, u)
              /\ IF failed
                 THEN /\ pc' = "call_failed"
                      /\ err' = batch_weights_error(inverse)
                      /\ UNCHANGED <<call_result, memo_weights, memo_vdm,
                                     n_weights, n_vdm, call_used>>
                 ELSE /\ memo_weights' =
                            IF hit THEN memo_weights
                            ELSE memoize_store(memo_weights, <<>>, weights)
                      /\ n_weights' = IF hit THEN n_weights
                                      ELSE n_weights + 1
                      /\ IF call_error(inverse) # "none"
                         THEN /\ pc' = "call_failed"
                              /\ err' = call_error(inverse)
                              /\ UNCHANGED <<call_result, memo_vdm, n_vdm,
                                             call_used>>
                         ELSE /\ pc' = "called"
                              /\ err' = err
                              /\ memo_vdm' =
                                    [memo_vdm EXCEPT ![actx] = vc.cache]
                              /\ n_vdm' = [n_vdm EXCEPT ![actx] = vc.n]
                              /\ call_used' = [weights |-> weights,
                                               vdm |-> vc.vdm]
                              /\ call_result' =
                                    l2_call(inverse, call_ary', weights,
                                            vc.vdm)
    /\ UNCHANGED <<faceVars, bldVars, prog, connections, is_surjective,
                   todo_links, conns, inverse, knlVars, xfVars>>

NextProj ==
    \/ ProjNew
    \/ ProjInit
    \/ ProjLink
    \/ ProjChain
    \/ ProjCall

SpecProj == InitProj /\ [][NextProj]_vars

---------------------------------------------------------------------------
(* Properties of the construction of the L2-projection inverse *)

\* a link the constructor must refuse: the dimensions of its two
\* discretizations differ, or a group of its to_discr has no orthonormal
\* basis
Offending(c) ==
    \/ c.from_discr.dim # c.to_discr.dim
    \/ \E g \in 1..Len(c.to_discr.groups) :
          ~is_orthonormal_basis(c.to_discr.groups[g])

\* the direct connections the argument consists of
ArgumentLinks ==
    IF connections.type = "direct" THEN << connections >>
    ELSE connections.connections

\* C12: if the direct connection, or a single link of the sequence or
\* chain, has differing dimensions or a to_discr group without an
\* orthonormal basis, the construction fails with RuntimeError and returns
\* no connection.
C12_RejectsOffendingLink ==
    prog = "proj" =>
        /\ (\E i \in 1..Len(ArgumentLinks) : Offending(ArgumentLinks[i])) =>
              /\ pc # "done"
              /\ inverse = <<>>
              /\ pc = "failed" \/ ENABLED NextProj
        /\ pc = "failed" => err = "RuntimeError" /\ inverse = <<>>

\* a chain of two links has failed on its first link, after the second
\* link had been inverted
C12_Witness ==
    /\ prog = "proj" /\ pc = "failed" /\ err = "RuntimeError"
    /\ connections.type = "chained"
    /\ Len(connections.connections) = 2
    /\ Offending(connections.connections[1])
    /\ ~Offending(connections.connections[2])
    /\ Len(conns) = 1

\* C14: the inverse of a chain or sequence c1, ..., cn is a chain of n
\* links, link i being the inverse of c(n+1-i) and going from its to_discr
\* to its from_discr, so that consecutive links compose; a chain without
\* links is returned as it is.
C14_ReversedChain ==
    prog = "proj" /\ pc = "done" /\ connections.type # "direct" =>
        IF Len(connections.connections) = 0
        THEN inverse = connections
        ELSE /\ inverse.type = "chained"
             /\ Len(inverse.connections) = Len(connections.connections)
             /\ \A i \in 1..Len(inverse.connections) :
                 LET c == connections.connections[
                              Len(connections.connections) + 1 - i]
                 IN  /\ inverse.connections[i].type = "l2inverse"
                     /\ inverse.connections[i].conn = c
                     /\ inverse.connections[i].from_discr = c.to_discr
                     /\ inverse.connections[i].to_discr = c.from_discr
             /\ \A i \in 1..(Len(inverse.connections) - 1) :
                 inverse.connections[i].to_discr
                     = inverse.connections[i + 1].from_discr

\* a chain of two links has been inverted
C14_Witness ==
    /\ prog = "proj" /\ pc = "done"
    /\ connections.type = "chained"
    /\ Len(connections.connections) = 2
    /\ inverse.type = "chained"

\* the forward connection given to the constructor starts from a
\* discretization with a group that is not interpolatory
NonInterpolatoryArgument ==
    /\ prog = "proj"
    /\ connections.type = "direct"
    /\ \E g \in 1..Len(connections.from_discr.groups) :
          ~IsInterpolatory(connections.from_discr.groups[g])

\* C13 as stated: a forward connection with a non-interpolatory group is
\* rejected at construction, so that no inverse connection is ever obtained
\* from it.
C13_RejectedAtConstruction ==
    NonInterpolatoryArgument => inverse = <<>> /\ pc # "done"

\* C13: the constructor does not look at the type of the groups: a forward
\* connection with a non-interpolatory group that passes the dimension and
\* basis checks yields an inverse connection, and it is the application of
\* that inverse which fails, with ValueError and before any result is
\* computed.
C13_RejectedAtApplication ==
    NonInterpolatoryArgument =>
        /\ pc \in {"done", "call_failed"} <=>
               init_error(connections) = "none" /\ pc # "new" /\ pc # "init"
        /\ pc = "done" => inverse.type = "l2inverse" /\ err = "none"
        /\ pc # "called"
        /\ call_result = <<>>
        /\ pc = "call_failed" => err = "ValueError"

\* the inverse of a forward connection with a non-interpolatory group was
\* constructed and its application has failed
C13_Witness ==
    /\ NonInterpolatoryArgument
    /\ inverse # <<>> /\ inverse.type = "l2inverse"
    /\ pc = "call_failed" /\ err = "ValueError"

\* C15: the inverse applied to the forward connection's image of nodal data
\* u of degree at most one returns u, to less than 1/RefHalf of a unit of
\* the data.
C15_RoundTrip ==
    prog = "proj" /\ pc = "called" =>
        \E u \in CoarseData(Len(inverse.to_discr.groups)) :
            /\ call_ary = forward_apply(inverse.conn, u)
            /\ \A g \in 1..Len(u) : \A e \in 1..Len(u[g]) :
                  \A i \in 1..Len(u[g][e]) :
                    RefHalf * Abs(call_result[g][e][i]
                                  - ProjScale * u[g][e][i]) < ProjScale

---------------------------------------------------------------------------
(* Pairing made by make_partition_connection *)

\* boundary elements the remote part's restriction gives for face f of
\* its volume element e
RemoteImage(rgi, e, f) ==
    {rgi.bdry_elem_indices[k] : k \in {k \in 1..Len(rgi.vol_elem_indices) :
        rgi.vol_elem_indices[k] = e /\ rgi.bdry_faces[k] = f}}

\* the (batch, entry) positions of output group g that pair target tgt
\* with source src of remote group s
Pairings(g, tgt, s, src) ==
    {v \in Entries(conn_out.groups[g + 1]) :
        /\ conn_out.groups[g + 1][v[1]].from_group_index = s
        /\ conn_out.groups[g + 1][v[1]].to_element_indices[v[2]] = tgt
        /\ conn_out.groups[g + 1][v[1]].from_element_indices[v[2]] = src}

\* C16: in the connection returned by make_partition_connection every
\* entry i of every remote inter-part adjacency group resolves to a local
\* group g and an offset with base_element_nrs[g] + offset = neighbors[i]
\* and 0 <= offset < nelements(g), and output group g has exactly one batch
\* entry that pairs the local boundary element of (offset,
\* neighbor_faces[i]) with the remote boundary element of (elements[i],
\* element_faces[i]), in a batch whose from_group_index is the adjacency
\* group's igroup; the connection goes from remote_bdry_discr to the local
\* boundary discretization.
C16_PartitionPairing ==
    prog = "part" /\ pc = "done" =>
        /\ conn_out.from_discr = "remote_bdry_discr"
        /\ conn_out.to_discr = "local_bdry_conn.to_discr"
        /\ Len(conn_out.groups) = mesh.ngrps
        /\ \A r \in 1..Len(mesh.remote_group_infos) :
           \A a \in 1..Len(mesh.remote_group_infos[r].inter_part_adj_groups) :
             LET rgi == mesh.remote_group_infos[r]
                 rem_ipag == rgi.inter_part_adj_groups[a]
             IN  \A i \in 1..Len(rem_ipag.neighbors) :
                   LET g == find_group_indices(mesh, rem_ipag.neighbors)[i]
                       offset == rem_ipag.neighbors[i]
                                     - mesh.base_element_nrs[g + 1]
                       tgts == RestrictionImage(mesh.conn_groups[g + 1],
                                   offset, rem_ipag.neighbor_faces[i])
                       srcs == RemoteImage(rgi, rem_ipag.elements[i],
                                   rem_ipag.element_faces[i])
                   IN  /\ g \in 0..(mesh.ngrps - 1)
                       /\ mesh.base_element_nrs[g + 1] + offset
                              = rem_ipag.neighbors[i]
                       /\ 0 <= offset /\ offset < mesh.nelements[g + 1]
                       /\ Cardinality(tgts) = 1 /\ Cardinality(srcs) = 1
                       /\ \A tgt \in tgts : \A src \in srcs :
                           /\ Cardinality(Pairings(g, tgt, rem_ipag.igroup,
                                                   src)) = 1
                           /\ \A v \in Entries(conn_out.groups[g + 1]) :
                                conn_out.groups[g + 1][v[1]]
                                    .to_element_indices[v[2]] = tgt
                                => v \in Pairings(g, tgt, rem_ipag.igroup,
                                                  src)

\* a partition connection has been returned in which a remote element has
\* both faces paired, with local elements of two groups
C16_Witness ==
    /\ prog = "part" /\ pc = "done"
    /\ \E r \in 1..Len(mesh.remote_group_infos) :
       \E a \in 1..Len(mesh.remote_group_infos[r].inter_part_adj_groups) :
         LET rem_ipag == mesh.remote_group_infos[r].inter_part_adj_groups[a]
         IN  /\ Len(UniqueGroups(mesh, rem_ipag)) = 2
             /\ \E i, k \in 1..Len(rem_ipag.elements) :
                   /\ i # k
                   /\ rem_ipag.elements[i] = rem_ipag.elements[k]
    /\ \E g \in 1..Len(conn_out.groups) : conn_out.groups[g] # <<>>

---------------------------------------------------------------------------
(* Termination and cover of _find_src_unit_nodes_batches *)

\* the elements marked in done_elements
DoneSet == {e \in 1..Len(done_elements) : done_elements[e]}

\* C17: the partitioner emits at most nelements batches, one per round;
\* each round assigns at least its template, the lowest element not yet
\* assigned, so the number of unassigned elements falls with every round;
\* the element sets of the batches are pairwise disjoint and, when the
\* partitioner returns, their union is all elements.  Without elements no
\* batch is emitted.
C17_PartitionerTerminates ==
    /\ find_src_unit_nodes_batches(<<>>, <<>>, Tol, 0, <<>>, <<>>) = <<>>
    /\ prog = "face" /\ FromPartitioner /\ pc \in {"batching", "done"} =>
        LET n == Len(fin.tgt_idx)
        IN  /\ Len(batches) = Len(batch_els)
            /\ Len(done_elements) = n
            /\ Len(batches) <= n
            /\ Len(batches) <= Cardinality(DoneSet)
            /\ DoneSet = UNION {InBatch(k) : k \in 1..Len(batches)}
            /\ \A k \in 1..Len(batches) :
                 /\ SetMin((1..n) \ AssignedBefore(k)) \in InBatch(k)
                 /\ InBatch(k) \subseteq 1..n
                 /\ InBatch(k) \cap AssignedBefore(k) = {}
                 /\ Len(batch_els[k]) = Cardinality(InBatch(k))
                 /\ batches[k].to_element_indices
                        = Take(fin.tgt_idx, batch_els[k])
            /\ pc = "done" => DoneSet = 1..n
            /\ pc = "batching" /\ DoneSet = 1..n =>
                  todo_elements(done_elements) = <<>>

\* the partitioner has returned after as many rounds as there are
\* elements, and there are several of them
C17_Witness ==
    /\ prog = "face" /\ FromPartitioner /\ pc = "done"
    /\ Len(fin.tgt_idx) >= 2
    /\ Len(batches) = Len(fin.tgt_idx)

---------------------------------------------------------------------------
(* The map made by the exact tier *)

\* the source node matched to target node t of element e
Matched(e, t) == source_indices(tgt_bdry_nodes, src_bdry_nodes, e, t, Tol)

\* within element e the map target node -> matched source node is one to
\* one and onto the source nodes
MatchIsBijection(e) ==
    /\ \A t1, t2 \in 1..Len(tgt_bdry_nodes[e]) :
          Matched(e, t1) = Matched(e, t2) => t1 = t2
    /\ \A s \in 1..Len(src_bdry_nodes[e]) :
          \E t \in 1..Len(tgt_bdry_nodes[e]) : Matched(e, t) = s

C19_CheckNeverFails ==
    prog = "face" =>
        /\ fin.dim # 0 /\ AllOneClose(tgt_bdry_nodes, src_bdry_nodes, Tol) =>
              /\ MatchCheck(tgt_bdry_nodes, src_bdry_nodes, Tol)
              /\ pc # "start" => tier = "exact" /\ err = "none"
        /\ err = "AssertionError" => tier = "newton"
        /\ tier = "exact" =>
              \A e \in 1..Len(tgt_bdry_nodes) :
                \A t \in 1..Len(tgt_bdry_nodes[e]) :
                  IsClose(tgt_bdry_nodes[e][t],
                          src_bdry_nodes[e][Matched(e, t)], Tol)

\* the check has passed on a match that selects the second source node
\* for the first target node, which is not exactly on it
C19_Witness ==
    /\ prog = "face" /\ tier = "exact" /\ pc = "batching"
    /\ Matched(1, 1) = 2
    /\ tgt_bdry_nodes[1][1] # src_bdry_nodes[1][2]

---------------------------------------------------------------------------
(* Order of the tiers in _make_cross_face_batches *)

\* what the position and the tier that ran say about each other
TierState ==
    prog = "face" =>
        /\ pc = "start" <=> tier = "none"
        /\ pc \in {"start", "newton", "failed"} =>
              batches = <<>> /\ done_elements = <<>>
        /\ fin.dim = 0 =>
              /\ tier \in {"none", "shortcut"}
              /\ pc \in {"start", "done"}
              /\ nIterDone = 0 /\ src_unit_nodes = <<>>
              /\ done_elements = <<>> /\ batch_els = <<>>
              /\ pc = "done" =>
                    batches = << InterpolationBatch(fin.i_src_grp,
                                     fin.src_idx, fin.tgt_idx,
                                     fin.unit_nodes, None) >>
        /\ fin.dim # 0 =>
              /\ tier # "shortcut"
              /\ tier = "exact" <=>
                    /\ pc # "start"
                    /\ AllOneClose(tgt_bdry_nodes, src_bdry_nodes, Tol)
              /\ tier = "newton" <=>
                    /\ pc # "start"
                    /\ ~AllOneClose(tgt_bdry_nodes, src_bdry_nodes, Tol)
              /\ tier = "exact" => nIterDone = 0 /\ pc \in {"batching", "done"}
              /\ tier = "newton" /\ pc \in {"batching", "done"} =>
                    nIterDone >= 1 /\ max_resid < Tol

\* how the position moves: the partitioner is entered once, from the exact
\* tier or from the converged Newton tier, and again only for the rerun
TierStep ==
    prog = "face" =>
        /\ pc' = "start" => pc = "start"
        /\ pc' = "newton" => pc \in {"start", "newton"}
        /\ pc' = "batching" /\ pc # "batching" =>
              \/ pc = "start" /\ tier' = "exact" /\ run' = 1
              \/ pc = "newton" /\ tier = "newton" /\ run' = 1
              \/ pc = "done" /\ run = 1 /\ run' = 2
        /\ pc = "batching" => pc' \in {"batching", "done"}
        /\ tier # "none" => tier' = tier

\* C20: for boundary dimension 0 no tier and no partitioner runs and one
\* batch pairs all target with all source elements on the source group's
\* unit nodes; otherwise the exact tier runs first, the Newton tier runs if
\* and only if the exact tier found no match, and the partitioner runs
\* after the tier that produced the coordinates.
C20_TierOrder == []TierState /\ [][TierStep]_vars

\* the partitioner has finished on coordinates that the Newton tier
\* produced after the exact tier had found no match
C20_Witness ==
    /\ prog = "face" /\ pc = "done" /\ run = 1
    /\ tier = "newton" /\ nIterDone >= 2
    /\ ~AllOneClose(tgt_bdry_nodes, src_bdry_nodes, Tol)
    /\ batches # <<>>

---------------------------------------------------------------------------
(* The iterate returned by the Gauss-Newton solve *)

\* the Newton tier has returned its coordinates
NewtonReturned ==
    prog = "face" /\ tier = "newton" /\ pc \in {"batching", "done"}

\* C21 as stated: the coordinates returned by a successful Newton solve
\* are the iterate whose residual passed the convergence test.
C21_AsStated ==
    NewtonReturned => src_unit_nodes = checked_nodes

\* C21, amended: the residual that passes the convergence test belongs to
\* the iterate before the last update; the solve returns that iterate
\* moved by one more Newton step, and the residual of the returned
\* coordinates is not evaluated.
C21_ReturnsUpdatedIterate ==
    NewtonReturned =>
        /\ max_resid = MaxResid(tgt_bdry_nodes, src_bdry_nodes,
                                fin.unit_nodes, checked_nodes)
        /\ max_resid < Tol
        /\ \A e \in 1..Len(src_unit_nodes) :
             \A t \in 1..Len(src_unit_nodes[e]) :
               src_unit_nodes[e][t][1]
                   = checked_nodes[e][t][1]
                     - df_inv_resid(tgt_bdry_nodes, src_bdry_nodes,
                                    fin.unit_nodes, checked_nodes, e, t)

\* the solve has returned coordinates that differ from the iterate whose
\* residual it tested
C21_Witness ==
    /\ NewtonReturned
    /\ nIterDone >= 1
    /\ src_unit_nodes # checked_nodes

---------------------------------------------------------------------------
(* The lookup table of a source group *)

\* no (element, face) pair occurs in two batch entries of the group
NoDoubleEntry(conn_grp) ==
    \A j1, j2 \in 1..Len(conn_grp) :
      \A k1 \in 1..Len(conn_grp[j1].from_element_indices) :
        \A k2 \in 1..Len(conn_grp[j2].from_element_indices) :
          /\ conn_grp[j1].to_element_face = conn_grp[j2].to_element_face
          /\ conn_grp[j1].from_element_indices[k1]
                 = conn_grp[j2].from_element_indices[k2]
          => j1 = j2 /\ k1 = k2

\* C22: the lookup table of group igrp has one row per volume element and
\* one column per face of the group; without double entries every batch b
\* and position k has table[b.from_element_indices[k], b.to_element_face]
\* = b.to_element_indices[k], and every (element, face) that no batch
\* entry names holds -1.
C22_LookupTable ==
    prog = "opp" /\ pc = "body" =>
        LET conn_grp == mesh.conn_groups[i_src_grp + 1]
            table == src_grp_el_lookup
        IN  /\ Len(table) = mesh.nelements[i_src_grp + 1]
            /\ \A e \in 1..Len(table) :
                  Len(table[e]) = mesh.nfaces[i_src_grp + 1]
            /\ NoDoubleEntry(conn_grp) =>
                 /\ \A b \in 1..Len(conn_grp) :
                     \A k \in 1..Len(conn_grp[b].from_element_indices) :
                       \A f \in 0..(mesh.nfaces[i_src_grp + 1] - 1) :
                         conn_grp[b].to_element_face = Some(f) =>
                           table[conn_grp[b].from_element_indices[k] + 1]
                                [f + 1]
                               = conn_grp[b].to_element_indices[k]
                 /\ \A e \in 1..Len(table) : \A f \in 1..Len(table[e]) :
                      (\A b \in 1..Len(conn_grp) :
                         \/ conn_grp[b].to_element_face # Some(f - 1)
                         \/ \A k \in 1..Len(conn_grp[b].from_element_indices) :
                              conn_grp[b].from_element_indices[k] # e - 1)
                      => table[e][f] = -1

\* a table with a written entry other than 0 and a sentinel entry
C22_Witness ==
    /\ prog = "opp" /\ pc = "body"
    /\ \E e \in 1..Len(src_grp_el_lookup) :
         \E f \in 1..Len(src_grp_el_lookup[e]) :
           src_grp_el_lookup[e][f] = -1
    /\ \E e \in 1..Len(src_grp_el_lookup) :
         \E f \in 1..Len(src_grp_el_lookup[e]) :
           src_grp_el_lookup[e][f] > 0

---------------------------------------------------------------------------
(* Index resolution in the loop body of make_opposite_face_connection *)

\* the loop body that is run next
NextBody == Head(todo_iters)

\* adj_els and vbc_els of the loop body that is run next
NextAdjEls ==
    Take(NextBody.adj.elements,
         adj_tgt_flags(NextBody.adj, NextBody.i_face_tgt))

NextVbcEls ==
    find_ibatch_for_face(mesh.conn_groups[NextBody.i_tgt_grp + 1],
                         NextBody.i_face_tgt)[1].from_element_indices

\* the body that is run next gets past the face-batch lookup and the
\* skip of empty faces
ResolvesIndices ==
    /\ prog = "opp" /\ pc = "body" /\ todo_iters # <<>>
    /\ Len(find_ibatch_for_face(mesh.conn_groups[NextBody.i_tgt_grp + 1],
                                NextBody.i_face_tgt)) = 1
    /\ NextAdjEls # <<>>

\* every adjacency element is in the batch, and in the batch's order when
\* the two lists have the same length
Resolvable ==
    /\ \A k \in 1..Len(NextAdjEls) :
          \E p \in 1..Len(NextVbcEls) : NextVbcEls[p] = NextAdjEls[k]
    /\ Len(NextAdjEls) = Len(NextVbcEls) => NextAdjEls = NextVbcEls

\* C23: for an (adjacency group, face) with elements the positions p
\* resolved into the face's restriction batch satisfy
\* batch.from_element_indices[p[k]] = adjacency_elements[k]: p is the
\* identity when the lists have equal length and comes from a sorted
\* search, for any order of the batch, when the adjacency elements are a
\* strict subset; with equal length and different order, or with an
\* adjacency element missing from the batch, the body raises and makes no
\* batch.
C23_IndexResolution ==
    ResolvesIndices =>
        LET used == vbc_used_els(NextVbcEls, NextAdjEls)
            r == opp_body(mesh, src_grp_el_lookup, i_src_grp,
                          NextBody.i_tgt_grp, NextBody.adj,
                          NextBody.i_face_tgt)
        IN  IF Resolvable
            THEN /\ used.err = "none"
                 /\ Len(used.idx) = Len(NextAdjEls)
                 /\ \A k \in 1..Len(NextAdjEls) :
                      /\ used.idx[k] \in 1..Len(NextVbcEls)
                      /\ NextVbcEls[used.idx[k]] = NextAdjEls[k]
                 /\ Len(NextAdjEls) = Len(NextVbcEls) =>
                      \A k \in 1..Len(NextAdjEls) : used.idx[k] = k
                 /\ r.err \notin {"AssertionError", "IndexError"}
            ELSE /\ r.err \in {"AssertionError", "IndexError"}
                 /\ r.batches = <<>>

\* the adjacency elements are a strict subset of a batch that lists its
\* elements in descending order, and the sorted search resolves them
C23_Witness ==
    /\ ResolvesIndices /\ Resolvable
    /\ Len(NextAdjEls) >= 2
    /\ Len(NextAdjEls) < Len(NextVbcEls)
    /\ NextVbcEls[1] > NextVbcEls[2]

---------------------------------------------------------------------------
(* Faces without elements in the loop of make_opposite_face_connection *)

\* the adjacency group of the body that is run next has no element on the
\* body's face
NextFaceEmpty ==
    /\ prog = "opp" /\ pc = "body" /\ todo_iters # <<>>
    /\ \A i \in 1..Len(NextBody.adj.element_faces) :
          NextBody.adj.element_faces[i] # NextBody.i_face_tgt

\* what the body that is run next returns
NextResult ==
    opp_body(mesh, src_grp_el_lookup, i_src_grp,
             NextBody.i_tgt_grp, NextBody.adj, NextBody.i_face_tgt)

\* the batches of the target group for the face of the body run next
NextFaceBatches ==
    find_ibatch_for_face(mesh.conn_groups[NextBody.i_tgt_grp + 1],
                         NextBody.i_face_tgt)

\* C24 as stated: an (adjacency group, face) without elements is skipped
\* without error and without batch, whatever restriction batches exist
\* for the face.
C24_AsStated ==
    NextFaceEmpty => NextResult = [err |-> "none", batches |-> <<>>]

\* C24, amended: the restriction batch of the face is looked up before
\* the adjacency elements are counted.  An (adjacency group, face) without
\* elements is skipped without error and without batch if the target
\* group's restriction has exactly one batch for the face, whatever the
\* batch holds; otherwise the lookup raises AssertionError.
C24_SkipsAfterFaceLookup ==
    NextFaceEmpty =>
        IF Len(NextFaceBatches) = 1
        THEN NextResult = [err |-> "none", batches |-> <<>>]
        ELSE NextResult = [err |-> "AssertionError", batches |-> <<>>]

\* a face without adjacency elements is about to be skipped although its
\* restriction batch has elements
C24_Witness ==
    /\ NextFaceEmpty
    /\ Len(NextFaceBatches) = 1
    /\ NextFaceBatches[1].from_element_indices # <<>>

---------------------------------------------------------------------------
(* The remote table and the sentinel in make_partition_connection *)

\* the loop body of make_partition_connection that is run next
NextPartBody == Head(todo_iters)

\* a loop body is about to run and the remote index arrays have entries
BuildsRemoteTable ==
    /\ prog = "part" /\ pc = "part_loop" /\ todo_iters # <<>>
    /\ NextPartBody.rgi.vol_elem_indices # <<>>

\* what the body that is run next returns
NextPartResult ==
    part_body(mesh, NextPartBody.rgi, NextPartBody.rem_ipag,
              NextPartBody.i_local_grp)

\* some adjacency entry of the body that is run next names a local or a
\* remote (element, face) that has no boundary element
NextLooksUpSentinel ==
    \E i \in 1..Len(NextPartBody.rem_ipag.neighbors) :
        /\ find_group_indices(mesh, NextPartBody.rem_ipag.neighbors)[i]
               = NextPartBody.i_local_grp
        /\ \/ RestrictionImage(
                  mesh.conn_groups[NextPartBody.i_local_grp + 1],
                  NextPartBody.rem_ipag.neighbors[i]
                      - mesh.base_element_nrs[NextPartBody.i_local_grp + 1],
                  NextPartBody.rem_ipag.neighbor_faces[i]) = {}
           \/ RemoteImage(NextPartBody.rgi,
                          NextPartBody.rem_ipag.elements[i],
                          NextPartBody.rem_ipag.element_faces[i]) = {}

\* C25: the remote table has max(vol_elem_indices)+1 rows and
\* max(bdry_faces)+1 columns, holds bdry_elem_indices[i] at
\* (vol_elem_indices[i], bdry_faces[i]) and -1 everywhere else; a loop
\* body that looks up an (element, face) without boundary element fails
\* and makes no batch, and no batch of the connection has a negative
\* element index.
C25_RemoteTableSentinel ==
    /\ BuildsRemoteTable =>
        LET rgi == NextPartBody.rgi
            n == Len(rgi.vol_elem_indices)
            table == remote_vol_to_bdry(rgi)
        IN  /\ \A i \in 1..n : Len(table) > rgi.vol_elem_indices[i]
            /\ \E i \in 1..n : Len(table) = rgi.vol_elem_indices[i] + 1
            /\ \A e \in 1..Len(table) :
                 /\ \A i \in 1..n : Len(table[e]) > rgi.bdry_faces[i]
                 /\ \E i \in 1..n : Len(table[e]) = rgi.bdry_faces[i] + 1
            /\ \A i \in 1..n :
                 table[rgi.vol_elem_indices[i] + 1][rgi.bdry_faces[i] + 1]
                     = rgi.bdry_elem_indices[i]
            /\ \A e \in 1..Len(table) : \A f \in 1..Len(table[e]) :
                 (\A i \in 1..n : \/ rgi.vol_elem_indices[i] # e - 1
                                   \/ rgi.bdry_faces[i] # f - 1)
                 => table[e][f] = -1
            /\ NextLooksUpSentinel =>
                 /\ NextPartResult.err \in {"AssertionError", "IndexError"}
                 /\ NextPartResult.batches = <<>>
    /\ prog = "part" =>
        \A g \in 1..Len(groups) : \A j \in 1..Len(groups[g]) :
          \A k \in 1..Len(groups[g][j].to_element_indices) :
            /\ groups[g][j].to_element_indices[k] >= 0
            /\ groups[g][j].from_element_indices[k] >= 0

\* a loop body is about to look up an (element, face) for which the
\* remote table holds the sentinel
C25_Witness ==
    /\ BuildsRemoteTable
    /\ NextLooksUpSentinel
    /\ NextPartResult.err = "AssertionError"
    /\ \E e \in 1..Len(remote_vol_to_bdry(NextPartBody.rgi)) :
         \E f \in 1..Len(remote_vol_to_bdry(NextPartBody.rgi)[e]) :
           remote_vol_to_bdry(NextPartBody.rgi)[e][f] = -1

---------------------------------------------------------------------------
(* The sentinel in the connection of make_opposite_face_connection *)

\* every (neighbor, neighbor face) of an interior adjacency record is
\* itself an (element, face) of an interior adjacency record of the
\* neighbor's group
SymmetricAdjacency ==
    \A g \in 1..Len(mesh.facial_adjacency_groups) :
      \A a \in 1..Len(mesh.facial_adjacency_groups[g]) :
        LET adj == mesh.facial_adjacency_groups[g][a]
        IN  adj.kind = "interior" =>
              \A i \in 1..Len(adj.neighbors) :
                \E b \in 1..Len(mesh.facial_adjacency_groups[
                                     adj.ineighbor_group + 1]) :
                  LET back == mesh.facial_adjacency_groups[
                                  adj.ineighbor_group + 1][b]
                  IN  /\ back.kind = "interior"
                      /\ \E k \in 1..Len(back.elements) :
                            /\ back.elements[k] = adj.neighbors[i]
                            /\ back.element_faces[k] = adj.neighbor_faces[i]

\* boundary elements the restriction assigns to some face of a group
AssignedBdryElements(conn_grp) ==
    UNION {{conn_grp[j].to_element_indices[k] :
               k \in 1..Len(conn_grp[j].to_element_indices)} :
           j \in 1..Len(conn_grp)}

\* C30: with a symmetric interior adjacency no batch of a connection that
\* make_opposite_face_connection returns has -1 or another negative value
\* as source boundary element index: every source index is a boundary
\* element the restriction assigns in the source group.
C30_NoSentinelSource ==
    prog = "opp" /\ pc = "done" /\ SymmetricAdjacency =>
        \A g \in 1..Len(conn_out.groups) :
          \A j \in 1..Len(conn_out.groups[g]) :
            \A k \in 1..Len(conn_out.groups[g][j].from_element_indices) :
              /\ conn_out.groups[g][j].from_element_indices[k] >= 0
              /\ conn_out.groups[g][j].from_element_indices[k] \in
                    AssignedBdryElements(mesh.conn_groups[
                        conn_out.groups[g][j].from_group_index + 1])

\* a connection with batches has been returned for a restriction whose
\* lookup tables hold the sentinel for some face
C30_Witness ==
    /\ prog = "opp" /\ pc = "done" /\ SymmetricAdjacency
    /\ \E g \in 1..Len(conn_out.groups) : conn_out.groups[g] # <<>>
    /\ \E g \in 1..mesh.ngrps :
         \E e \in 1..mesh.nelements[g] : \E f \in 1..mesh.nfaces[g] :
           make_bdry_el_lookup_table(mesh, g - 1)[e][f] = -1


---------------------------------------------------------------------------
(* Group indexing of the projection *)

\* the coefficients an L2 projection gives group g of its to_discr: every
\* batch of the forward connection whose from_group_index is g, with the
\* data of the group of the forward to_discr the batch belongs to
ProjectedOnto(inv, data, g) ==
    [el \in 1..inv.to_discr.nelements[g] |-> [ibasis \in 1..2 |->
        SeqSum([igrp \in 1..Len(inv.conn.groups) |->
            SeqSum([ib \in 1..Len(inv.conn.groups[igrp]) |->
                IF inv.conn.groups[igrp][ib].from_group_index + 1 = g
                THEN kproj(data[igrp], inv.conn.groups[igrp][ib],
                           batch_weights(inv.conn.groups[igrp][ib]),
                           inv.to_discr.nelements[g], 2)[el][ibasis]
                ELSE 0])])]]

\* the nodal values of those coefficients
ProjectedNodal(inv, data) ==
    [g \in 1..Len(inv.to_discr.groups) |->
        [el \in 1..inv.to_discr.nelements[g] |-> [i \in 1..2 |->
            SeqSum([j \in 1..2 |->
                NormSq(j - 1) * vandermonde_matrix[i][j]
                * ProjectedOnto(inv, data, g)[el][j]])]]]

\* every group of the inverse's to_discr is interpolatory
AllInterpolatory(inv) ==
    \A g \in 1..Len(inv.to_discr.groups) :
        IsInterpolatory(inv.to_discr.groups[g])

\* C29: applied to data on the forward connection's to_discr, the
\* projection takes the input of each batch from the group of that
\* discretization the batch belongs to and adds its contribution to the
\* output group batch.from_group_index, with that group's element and node
\* counts, whatever the correspondence of the groups of the two sides
C29_GroupIndexing ==
    prog = "proj" /\ pc \in {"called", "call_failed"}
                  /\ AllInterpolatory(inverse) =>
        /\ pc = "called"
        /\ call_result = ProjectedNodal(inverse, call_ary)

\* the same for forward connections between discretizations with equally
\* many groups whose batches of group igrp all have from_group_index = igrp
C29_SameIndex ==
    prog = "proj" /\ pc \in {"called", "call_failed"}
                  /\ AllInterpolatory(inverse)
                  /\ Len(inverse.conn.groups) = Len(inverse.to_discr.groups)
                  /\ (\A g \in 1..Len(inverse.conn.groups) :
                        \A ib \in 1..Len(inverse.conn.groups[g]) :
                          inverse.conn.groups[g][ib].from_group_index + 1 = g)
        =>
        /\ pc = "called"
        /\ call_result = ProjectedNodal(inverse, call_ary)


---------------------------------------------------------------------------
(* Memoization in the projection *)

\* the last application worked with the values a computation made at that
\* moment would give, and returned what they give
UsesFreshValues ==
    /\ call_used.weights = weights_dict(inverse)
    /\ Len(call_used.vdm) = Len(inverse.to_discr.groups)
    /\ \A g \in 1..Len(call_used.vdm) :
          call_used.vdm[g] = vandermonde_matrix
    /\ call_result =
          l2_call(inverse, call_ary, weights_dict(inverse),
                  [g \in 1..Len(inverse.to_discr.groups) |->
                      vandermonde_matrix])

---------------------------------------------------------------------------
(* One run of conn_projection_knl.  The instances of a statement over      *)
(* inames tagged as concurrent run in any order; an instance of the update *)
(* reads its result entry and writes it back in two steps.                 *)

\* elements in the batch of a kernel run
MaxKnlEls == 2

\* what the result array may hold before the kernel has written it
GarbageValues == {-1, 1}

\* nodal values of one element of ary
KnlRows == {<<0, 2>>, <<2, 2>>}

\* the arguments __call__ passes for one batch of the forward connection:
\* to_element_indices = batch.from_element_indices, from_element_indices =
\* batch.to_element_indices
KnlInputs ==
    {[batch |-> InterpolationBatch(0, from_els,
                                   [i \in 1..n |-> i - 1], nodes, None),
      ary |-> a,
      n_to_elements |-> nto] :
        <<n, nto, from_els, a, nodes>> \in
          {t \in UNION {UNION {
                 {n2} \X {nto2} \X [1..n2 -> 0..(nto2 - 1)]
                      \X [1..n2 -> KnlRows]
                      \X {SegmentUnitNodes, ChildUnitNodes(0),
                          ChildUnitNodes(1)} :
                 nto2 \in 1..MaxKnlEls} : n2 \in 1..MaxKnlEls} : TRUE}}

\* the instances of the update statement: (iel, ibasis)
KnlInstances == (1..Len(knl.batch.from_element_indices)) \X (1..2)

\* the entries of result: (iel_init, idof_init)
KnlEntries == (1..knl.n_to_elements) \X (1..2)

\* sum(i_quad, ary[from_element_indices[iel], i_quad]
\*             * basis_tabulation[ibasis, i_quad] * weights[i_quad])
knl_term(iel, ibasis) ==
    SeqSum([q \in 1..2 |->
        knl.ary[knl.batch.to_element_indices[iel] + 1][q]
        * basis_tabulation(knl.batch)[ibasis][q]
        * batch_weights(knl.batch)[q]])

InitKnl ==
    /\ prog = "kern"
    /\ pc = "init"
    /\ knl \in KnlInputs
    /\ knl_result \in [1..knl.n_to_elements -> [1..2 -> GarbageValues]]
    /\ knl_inited = {}
    /\ knl_st = [i \in KnlInstances |-> "ready"]
    /\ knl_tmp = [i \in KnlInstances |-> 0]
    /\ XfIdle
    /\ connections = <<>>
    /\ is_surjective = FALSE
    /\ todo_links = <<>>
    /\ conns = <<>>
    /\ inverse = <<>>
    /\ call_ary = <<>>
    /\ call_result = <<>>
    /\ calls = <<>>
    /\ memo_weights = <<>>
    /\ memo_vdm = <<>>
    /\ n_weights = 0
    /\ n_vdm = <<>>
    /\ call_used = <<>>
    /\ err = "none"
    /\ mesh = <<>>
    /\ groups = <<>>
    /\ i_src_grp = 0
    /\ src_grp_el_lookup = <<>>
    /\ todo_iters = <<>>
    /\ conn_out = <<>>
    /\ fin = <<>>
    /\ src_unit_nodes = <<>>
    /\ tier = "none"
    /\ niter = 0
    /\ nIterDone = 0
    /\ max_resid = -1
    /\ checked_nodes = <<>>
    /\ done_elements = <<>>
    /\ batches = <<>>
    /\ batch_els = <<>>
    /\ run = 1
    /\ prev_batches = <<>>

knlRest == <<faceVars, bldVars, prog, err, connections, is_surjective,
             todo_links, conns, inverse, call_ary, call_result, memoVars,
             xfVars, knl>>

\* result[iel_init, idof_init] = 0 {id=init}, one instance
KnlInit ==
    /\ prog = "kern" /\ pc = "init"
    /\ \E e \in KnlEntries \ knl_inited :
          /\ knl_result' = [knl_result EXCEPT ![e[1]][e[2]] = 0]
          /\ knl_inited' = knl_inited \cup {e}
    /\ UNCHANGED <<knlRest, pc, knl_st, knl_tmp>>

\* ... gbarrier {id=barrier, dep=init}: passed when every instance of init
\* has run
KnlBarrier ==
    /\ prog = "kern" /\ pc = "init"
    /\ knl_inited = KnlEntries
    /\ pc' = "update"
    /\ UNCHANGED <<knlRest, knl_result, knl_inited, knl_st, knl_tmp>>

\* the right-hand side of the update is evaluated by one instance: it
\* reads result[to_element_indices[iel], ibasis]
KnlRead ==
    /\ prog = "kern" /\ pc = "update"
    /\ \E i \in KnlInstances :
          /\ knl_st[i] = "ready"
          /\ knl_tmp' = [knl_tmp EXCEPT ![i] =
                knl_result[knl.batch.from_element_indices[i[1]] + 1][i[2]]]
          /\ knl_st' = [knl_st EXCEPT ![i] = "read"]
    /\ UNCHANGED <<knlRest, pc, knl_result, knl_inited>>

\* the instance stores the sum to result[to_element_indices[iel], ibasis]
KnlWrite ==
    /\ prog = "kern" /\ pc = "update"
    /\ \E i \in KnlInstances :
          /\ knl_st[i] = "read"
          /\ knl_result' = [knl_result EXCEPT
                ![knl.batch.from_element_indices[i[1]] + 1][i[2]] =
                    knl_tmp[i] + knl_term(i[1], i[2])]
          /\ knl_st' = [knl_st EXCEPT ![i] = "written"]
    /\ UNCHANGED <<knlRest, pc, knl_inited, knl_tmp>>

\* the kernel returns when every instance has stored
KnlReturn ==
    /\ prog = "kern" /\ pc = "update"
    /\ \A i \in KnlInstances : knl_st[i] = "written"
    /\ pc' = "done"
    /\ UNCHANGED <<knlRest, knl_result, knl_inited, knl_st, knl_tmp>>

NextKnl ==
    \/ KnlInit
    \/ KnlBarrier
    \/ KnlRead
    \/ KnlWrite
    \/ KnlReturn

SpecKnl == InitKnl /\ [][NextKnl]_vars

\* the sequential sum the kernel is written to compute
KnlSequential ==
    kproj(knl.ary, knl.batch, batch_weights(knl.batch),
          knl.n_to_elements, 2)

\* no two iterations of iel update the same row of result
KnlDistinctRows ==
    \A i, j \in 1..Len(knl.batch.from_element_indices) :
        knl.batch.from_element_indices[i] = knl.batch.from_element_indices[j]
            => i = j

\* C26: in one run of the projection kernel every entry of result is zero
\* before anything is accumulated into it, and whatever the interleaving of
\* the iterations over iel the returned result is the sequential sum
C26_InterleavingIndependent ==
    prog = "kern" =>
        /\ pc = "update" =>
              \A e \in KnlEntries :
                 (\A i \in KnlInstances :
                     knl.batch.from_element_indices[i[1]] + 1 = e[1]
                        /\ i[2] = e[2] => knl_st[i] # "written")
                 => knl_result[e[1]][e[2]] = 0
        /\ pc = "done" => knl_result = KnlSequential

\* the part of C26 about initialisation: at the barrier result is zero
C26_ZeroedAtBarrier ==
    prog = "kern" /\ pc = "update"
                  /\ (\A i \in KnlInstances : knl_st[i] # "written")
        => \A e \in KnlEntries : knl_result[e[1]][e[2]] = 0

\* the result is the sequential sum when the iterations over iel update
\* distinct rows
C26_DistinctRows ==
    prog = "kern" /\ pc = "done" /\ KnlDistinctRows
        => knl_result = KnlSequential


---------------------------------------------------------------------------
(* The kernel transform of the array context: _transform_loopy_inner       *)
(* collects element and DOF inames, _transform_with_element_and_dof_inames *)
(* splits and tags them.                                                   *)

\* statements of a kernel
MaxStmts == 2

\* default_ep.all_inames(), in sorted order
InameOrder == <<"idof", "iel">>

KernelInames == {InameOrder[r] : r \in 1..Len(InameOrder)}

\* what may stand in a subscript: an iname, or a variable that is none
SubscriptNames == KernelInames \cup {"n"}

\* the arrays of the kernel
ArgNames == {"out", "tmp"}

Assignee(kind, aggregate, index) ==
    [kind |-> kind, aggregate |-> aggregate, index |-> index]

\* assignees: a scalar variable, a subscript with one or two indices, or
\* another expression
Assignees ==
    {Assignee("variable", "x", <<>>), Assignee("other", "x", <<>>)}
    \cup {Assignee("subscript", a, ix) :
            a \in ArgNames,
            ix \in [1..1 -> SubscriptNames] \cup [1..2 -> SubscriptNames]}

\* instructions: an assignment with one assignee, or a barrier
Statements ==
    {[kind |-> "barrier", assignee |-> Assignee("none", "x", <<>>)]}
    \cup {[kind |-> "assignment", assignee |-> a] : a \in Assignees}

Instructions == UNION {[1..n -> Statements] : n \in 1..MaxStmts}

Kernel(tags, arg_tags, instructions, iname_tags, iname_order) ==
    [tags |-> tags, arg_tags |-> arg_tags, instructions |-> instructions,
     iname_tags |-> iname_tags, iname_order |-> iname_order]

NoInameTags == [n \in KernelInames |-> {}]

\* the kernels given to the transform: tagged on the kernel, tagged on an
\* argument, or tagged on the inames
XfKernels ==
    {Kernel(tags, {}, ins, NoInameTags, InameOrder) :
        tags \in SUBSET {"FirstAxisIsElementsTag",
                         "ElementwiseMapKernelTag"} \ {{}},
        ins \in Instructions}
    \cup {Kernel({}, {"out"}, ins, NoInameTags, InameOrder) :
            ins \in Instructions}
    \cup {Kernel({}, {}, <<[kind |-> "assignment",
                            assignee |-> Assignee("subscript", "out",
                                                  <<"iel", "idof">>)]>>,
                 it, ord) :
            it \in [KernelInames -> SUBSET {"el", "dof"}],
            ord \in {InameOrder, <<"iel", "idof">>}}

Iname(name, part) == [name |-> name, part |-> part]

\* the translation unit: its inames, their tags, the tagged arguments
TranslationUnit(k, arg_tags) ==
    [inames |-> {Iname(n, "") : n \in KernelInames},
     tags |-> {<<Iname(n, ""), t>> :
                  <<n, t>> \in {nt \in KernelInames \X {"el", "dof"} :
                                   nt[2] \in k.iname_tags[nt[1]]}},
     arg_tags |-> arg_tags]

\* lp.split_iname(t_unit, iname, 32, inner_tag): the iname is replaced by
\* an outer and an inner one; an unknown iname is an error
split_iname(t, name, inner_tag) ==
    IF Iname(name, "") \notin t.inames
    THEN [err |-> "LoopyError", t_unit |-> t]
    ELSE [err |-> "none",
          t_unit |-> [t EXCEPT
              !.inames = (@ \ {Iname(name, "")})
                         \cup {Iname(name, "outer"), Iname(name, "inner")},
              !.tags = {p \in @ : p[1] # Iname(name, "")}
                       \cup {<<Iname(name, "inner"), inner_tag>>}]]

\* lp.tag_inames(t_unit, {iname: tag})
tag_inames(t, name, tag) ==
    IF Iname(name, "") \notin t.inames
    THEN [err |-> "LoopyError", t_unit |-> t]
    ELSE [err |-> "none",
          t_unit |-> [t EXCEPT !.tags = @ \cup {<<Iname(name, ""), tag>>}]]

Collected(error, el, dof) == [err |-> error, el |-> el, dof |-> dof]

\* for i, subscript in enumerate(assignee.index_tuple[:2])
add_subscripts(acc, index) ==
    IF index[1] \notin KernelInames THEN Collected("ValueError", <<>>, <<>>)
    ELSE IF Len(index) = 1 THEN [acc EXCEPT !.el = Append(@, index[1])]
    ELSE IF index[2] \notin KernelInames
    THEN Collected("ValueError", <<>>, <<>>)
    ELSE [acc EXCEPT !.el = Append(@, index[1]),
                     !.dof = Append(@, index[2])]

\* the loop over the statements of a kernel tagged ElementwiseMapKernelTag
RECURSIVE collect_elementwise(_)
collect_elementwise(stmts) ==
    IF stmts = <<>> THEN Collected("none", <<>>, <<>>)
    ELSE LET before == collect_elementwise(SubSeq(stmts, 1, Len(stmts) - 1))
             stmt == stmts[Len(stmts)]
         IN  IF before.err # "none" THEN before
             ELSE IF stmt.kind # "assignment" THEN before
             ELSE IF stmt.assignee.kind = "variable" THEN before
             ELSE IF stmt.assignee.kind # "subscript"
             THEN Collected("ValueError", <<>>, <<>>)
             ELSE add_subscripts(before, stmt.assignee.index)

\* the loop over the statements of a kernel with an argument tagged
\* FirstAxisIsElementsTag
RECURSIVE collect_first_axis(_, _)
collect_first_axis(stmts, first_axis_el_args) ==
    IF stmts = <<>> THEN Collected("none", <<>>, <<>>)
    ELSE LET before == collect_first_axis(SubSeq(stmts, 1, Len(stmts) - 1),
                                          first_axis_el_args)
             stmt == stmts[Len(stmts)]
         IN  IF before.err # "none" THEN before
             ELSE IF stmt.kind # "assignment" THEN before
             ELSE IF stmt.assignee.kind # "subscript"
             THEN Collected("ValueError", <<>>, <<>>)
             ELSE IF stmt.assignee.aggregate \notin first_axis_el_args
             THEN before
             ELSE add_subscripts(before, stmt.assignee.index)

\* the inames of the given order that carry the tag
tagged_inames(k, tag) ==
    SelectSeq(k.iname_order, LAMBDA n : tag \in k.iname_tags[n])

\* _transform_loopy_inner up to its return statement: the exception it
\* raises, whether it calls the transform, the arguments of that call
transform_loopy_inner(k) ==
    LET compat == "FirstAxisIsElementsTag" \in k.tags
        single == Len(k.instructions) = 1
                  /\ k.instructions[1].kind = "assignment"
        compat_err ==
            compat /\ (~single
                       \/ k.instructions[1].assignee.kind # "subscript")
        arg_tags == IF compat /\ ~compat_err
                    THEN k.arg_tags
                         \cup {k.instructions[1].assignee.aggregate}
                    ELSE k.arg_tags
        t == TranslationUnit(k, arg_tags)
        c == IF "ElementwiseMapKernelTag" \in k.tags
             THEN collect_elementwise(k.instructions)
             ELSE IF arg_tags # {}
             THEN collect_first_axis(k.instructions, arg_tags)
             ELSE Collected("none", tagged_inames(k, "el"),
                            tagged_inames(k, "dof"))
    IN  IF compat_err
        THEN [err |-> "ValueError", call |-> FALSE, t_unit |-> t,
              el |-> <<>>, dof |-> <<>>]
        ELSE IF c.err # "none"
        THEN [err |-> c.err, call |-> FALSE, t_unit |-> t,
              el |-> <<>>, dof |-> <<>>]
        ELSE [err |-> "none",
              call |-> \/ "ElementwiseMapKernelTag" \in k.tags
                       \/ arg_tags # {}
                       \/ c.el # <<>>,
              t_unit |-> t, el |-> c.el, dof |-> c.dof]

\* the number of times x stands in the list
Count(l, x) == Cardinality({i \in 1..Len(l) : l[i] = x})

\* sorted(inames)
sorted(l) ==
    Concat([r \in 1..Len(InameOrder) |->
               [c \in 1..Count(l, InameOrder[r]) |-> InameOrder[r]]])

\* set(inames)
set(l) == {l[i] : i \in 1..Len(l)}

InitXf ==
    /\ prog = "xform"
    /\ pc = "start"
    /\ xf_knl \in XfKernels
    /\ t_unit = <<>>
    /\ el_inames = <<>>
    /\ dof_inames = <<>>
    /\ todo_dof = <<>>
    /\ todo_el = <<>>
    /\ xf_calls = <<>>
    /\ KnlIdle
    /\ connections = <<>>
    /\ is_surjective = FALSE
    /\ todo_links = <<>>
    /\ conns = <<>>
    /\ inverse = <<>>
    /\ call_ary = <<>>
    /\ call_result = <<>>
    /\ calls = <<>>
    /\ memo_weights = <<>>
    /\ memo_vdm = <<>>
    /\ n_weights = 0
    /\ n_vdm = <<>>
    /\ call_used = <<>>
    /\ err = "none"
    /\ mesh = <<>>
    /\ groups = <<>>
    /\ i_src_grp = 0
    /\ src_grp_el_lookup = <<>>
    /\ todo_iters = <<>>
    /\ conn_out = <<>>
    /\ fin = <<>>
    /\ src_unit_nodes = <<>>
    /\ tier = "none"
    /\ niter = 0
    /\ nIterDone = 0
    /\ max_resid = -1
    /\ checked_nodes = <<>>
    /\ done_elements = <<>>
    /\ batches = <<>>
    /\ batch_els = <<>>
    /\ run = 1
    /\ prev_batches = <<>>

xfRest == <<faceVars, bldVars, prog, connections, is_surjective,
            todo_links, conns, inverse, call_ary, call_result, memoVars,
            knlVars, xf_knl>>

\* _transform_loopy_inner: it raises, returns None, or calls
\* _transform_with_element_and_dof_inames with the collected lists
XfCollect ==
    /\ prog = "xform" /\ pc = "start"
    /\ LET r == transform_loopy_inner(xf_knl)
       IN  /\ t_unit' = r.t_unit
           /\ el_inames' = r.el
           /\ dof_inames' = r.dof
           /\ err' = r.err
           /\ pc' = IF r.err # "none" THEN "collect_failed"
                    ELSE IF r.call THEN "check"
                    ELSE "returned_none"
    /\ UNCHANGED <<xfRest, todo_dof, todo_el, xf_calls>>

\* if set(el_inames) & set(dof_inames): raise ValueError
XfCheck ==
    /\ prog = "xform" /\ pc = "check"
    /\ IF set(el_inames) \cap set(dof_inames) # {}
       THEN /\ pc' = "failed"
            /\ err' = "ValueError"
            /\ UNCHANGED <<todo_dof, todo_el>>
       ELSE /\ pc' = "loops"
            /\ todo_dof' = sorted(dof_inames)
            /\ todo_el' = sorted(el_inames)
            /\ err' = err
    /\ UNCHANGED <<xfRest, t_unit, el_inames, dof_inames, xf_calls>>

\* t_unit = lp.split_iname(t_unit, dof_iname, 32, inner_tag="l.0")
XfSplit ==
    /\ prog = "xform" /\ pc = "loops"
    /\ todo_dof # <<>>
    /\ LET r == split_iname(t_unit, Head(todo_dof), "l.0")
       IN  /\ xf_calls' = Append(xf_calls, <<"split_iname", Head(todo_dof)>>)
           /\ t_unit' = r.t_unit
           /\ err' = r.err
           /\ pc' = IF r.err # "none" THEN "failed" ELSE pc
    /\ todo_dof' = Tail(todo_dof)
    /\ UNCHANGED <<xfRest, el_inames, dof_inames, todo_el>>

\* t_unit = lp.tag_inames(t_unit, {el_iname: "g.0"})
XfTag ==
    /\ prog = "xform" /\ pc = "loops"
    /\ todo_dof = <<>> /\ todo_el # <<>>
    /\ LET r == tag_inames(t_unit, Head(todo_el), "g.0")
       IN  /\ xf_calls' = Append(xf_calls, <<"tag_inames", Head(todo_el)>>)
           /\ t_unit' = r.t_unit
           /\ err' = r.err
           /\ pc' = IF r.err # "none" THEN "failed" ELSE pc
    /\ todo_el' = Tail(todo_el)
    /\ UNCHANGED <<xfRest, el_inames, dof_inames, todo_dof>>

\* return t_unit
XfReturn ==
    /\ prog = "xform" /\ pc = "loops"
    /\ todo_dof = <<>> /\ todo_el = <<>>
    /\ pc' = "returned"
    /\ UNCHANGED <<xfRest, err, t_unit, el_inames, dof_inames, todo_dof,
                   todo_el, xf_calls>>

NextXf ==
    \/ XfCollect
    \/ XfCheck
    \/ XfSplit
    \/ XfTag
    \/ XfReturn

SpecXf == InitXf /\ [][NextXf]_vars


\* _transform_with_element_and_dof_inames was called and has ended
XfEnded == prog = "xform" /\ pc \in {"failed", "returned"}

\* the calls made for an iname
CallsOf(fn, name) == Count(xf_calls, <<fn, name>>)

\* the calls the sets of collected inames ask for: one split per DOF
\* iname, then one tag per element iname, each in sorted order
CallsOfSets(els, dofs) ==
    SelectSeq([r \in 1..Len(InameOrder) |-> <<"split_iname", InameOrder[r]>>],
              LAMBDA c : c[2] \in dofs)
    \o SelectSeq([r \in 1..Len(InameOrder) |-> <<"tag_inames", InameOrder[r]>>],
                 LAMBDA c : c[2] \in els)

\* C28: the transform raises ValueError, having transformed nothing, when
\* an iname is collected both as element and as DOF iname; otherwise it
\* returns, having split each collected DOF iname once and tagged each
\* collected element iname once, in sorted order, so that the calls depend
\* on the sets of collected inames only
C28_TransformOfCollected ==
    XfEnded =>
        IF set(el_inames) \cap set(dof_inames) # {}
        THEN pc = "failed" /\ err = "ValueError" /\ xf_calls = <<>>
        ELSE /\ pc = "returned"
             /\ \A d \in set(dof_inames) : CallsOf("split_iname", d) = 1
             /\ \A e \in set(el_inames) : CallsOf("tag_inames", e) = 1
             /\ xf_calls = CallsOfSets(set(el_inames), set(dof_inames))

\* the first half of C28: inames collected as both are refused before any
\* transformation
C28_RaisesOnOverlap ==
    XfEnded /\ set(el_inames) \cap set(dof_inames) # {}
        => pc = "failed" /\ err = "ValueError" /\ xf_calls = <<>>

\* the second half of C28 for inames that were each collected once
C28_CollectedOnce ==
    XfEnded /\ set(el_inames) \cap set(dof_inames) = {}
            /\ (\A n \in KernelInames :
                   Count(el_inames, n) <= 1 /\ Count(dof_inames, n) <= 1)
        => /\ pc = "returned"
           /\ xf_calls = CallsOfSets(set(el_inames), set(dof_inames))

\* what the code does with an iname collected several times: one call for
\* every time it was collected
C28_CallPerOccurrence ==
    prog = "xform" /\ pc = "returned" =>
        /\ \A d \in KernelInames :
              CallsOf("split_iname", d) = Count(dof_inames, d)
        /\ \A e \in KernelInames :
              CallsOf("tag_inames", e) = Count(el_inames, e)

=============================================================================
